---- MODULE Spec2Model ----
(***************************************************************************)
(* Model of archivebox/config.py: the layered resolution of configuration  *)
(* values (load_config_val, load_config, load_all_config) and the config   *)
(* file writer (write_config_file).                                        *)
(*                                                                         *)
(* Python strings that the code inspects (values read from the environment *)
(* or the config file) are sequences of one-character strings, so that     *)
(* lower(), strip(), isdigit(), int() and format() are computed and not    *)
(* assumed.  Key names and section names are TLA+ strings.                 *)
(*                                                                         *)
(* Spec is the process: the import of archivebox.config, then calls of     *)
(* write_config_file and load_all_config and changes of os.environ.        *)
(* SpecVal is load_config_val alone, called once on drawn arguments, and   *)
(* SpecCoerce the same call on a raw value found in one source.  SpecPass  *)
(* is the import and further passes on files that switch archive methods   *)
(* off, SpecWrite the import and writes on files as users leave them, and  *)
(* SpecConc two threads stepping through write_config_file.  SpecReload is *)
(* one such thread next to a thread stepping through load_all_config,      *)
(* SpecDirs write_config_file with an explicit out_dir on two directories, *)
(* and SpecToggles the import under environments that switch archive       *)
(* methods and dependency flags off.  SpecSettings is the source order of  *)
(* plugantic/base_configset.py (ArchiveBoxBaseConfig).                      *)
(***************************************************************************)
EXTENDS Integers, Sequences, FiniteSets, TLC

VARIABLES
    pc,             \* "boot" before archivebox.config is imported, "ready" after, "crashed" if the import raised
    environ,        \* os.environ: name -> string
    conf,           \* the file OUTPUT_DIR/ArchiveBox.conf
    bak,            \* the file OUTPUT_DIR/ArchiveBox.conf.bak
    CONFIG,         \* the module-level CONFIG of archivebox.config
    stdout_isatty,  \* sys.stdout.isatty()
    call,           \* the last completed call and the state it started from
    ncalls,         \* number of calls made since the import
    probe,          \* one direct call of load_config_val: its arguments and result
    threads         \* the write_config_file calls in progress, one per thread

vars == <<pc, environ, conf, bak, CONFIG, stdout_isatty, call, ncalls, probe, threads>>

-----------------------------------------------------------------------------
(* Python values *)

NoneV      == [t |-> "none", b |-> FALSE, n |-> 0, s |-> <<>>, l |-> <<>>]
Unbound    == [t |-> "unbound", b |-> FALSE, n |-> 0, s |-> <<>>, l |-> <<>>]
BoolV(x)   == [t |-> "bool", b |-> x, n |-> 0, s |-> <<>>, l |-> <<>>]
IntV(x)    == [t |-> "int", b |-> FALSE, n |-> x, s |-> <<>>, l |-> <<>>]
StrV(x)    == [t |-> "str", b |-> FALSE, n |-> 0, s |-> x, l |-> <<>>]
ListV(x)   == [t |-> "list", b |-> FALSE, n |-> 0, s |-> <<>>, l |-> x]

\* bool(v)
Truthy(v) ==
    CASE v.t = "bool" -> v.b
      [] v.t = "int"  -> v.n # 0
      [] v.t = "str"  -> v.s # <<>>
      [] v.t = "list" -> v.l # <<>>
      [] OTHER        -> FALSE

\* an `and` that gives its right operand whatever the left one is
PyAnd_right(a, b) == b

\* a and b, a or b, not a
PyAnd(a, b) == IF Truthy(a) THEN b ELSE a
PyOr(a, b)  == IF Truthy(a) THEN a ELSE b
PyNot(a)    == BoolV(~Truthy(a))

\* the outcome of a call: a returned value or a raised exception
Ok(v)    == [ok |-> TRUE, v |-> v, exc |-> ""]
Raise(e) == [ok |-> FALSE, v |-> NoneV, exc |-> e]

-----------------------------------------------------------------------------
(* Python str methods on sequences of characters *)

UpperChars == <<"A","B","C","D","E","F","G","H","I","J","K","L","M",
                "N","O","P","Q","R","S","T","U","V","W","X","Y","Z">>
LowerChars == <<"a","b","c","d","e","f","g","h","i","j","k","l","m",
                "n","o","p","q","r","s","t","u","v","w","x","y","z">>
DigitChars == <<"0","1","2","3","4","5","6","7","8","9">>
SpaceChars == {" ", "\t", "\n"}

LowerChar(ch) ==
    IF \E i \in 1..26 : UpperChars[i] = ch
    THEN LowerChars[CHOOSE i \in 1..26 : UpperChars[i] = ch]
    ELSE ch

\* str.lower()
RECURSIVE str_lower(_)
str_lower(s) ==
    IF s = <<>> THEN <<>> ELSE <<LowerChar(Head(s))>> \o str_lower(Tail(s))

\* str.strip()
str_strip(s) ==
    LET keep  == {i \in 1..Len(s) : s[i] \notin SpaceChars}
        Min(S) == CHOOSE i \in S : \A j \in S : i <= j
        Max(S) == CHOOSE i \in S : \A j \in S : i >= j
    IN IF keep = {} THEN <<>> ELSE SubSeq(s, Min(keep), Max(keep))

IsDigit(ch) == \E i \in 1..10 : DigitChars[i] = ch
DigitOf(ch) == (CHOOSE i \in 1..10 : DigitChars[i] = ch) - 1

\* str.isdigit()
str_isdigit(s) == Len(s) > 0 /\ \A i \in 1..Len(s) : IsDigit(s[i])

\* int(s) for a string of digits
RECURSIVE int_of(_)
int_of(s) ==
    IF s = <<>> THEN 0
    ELSE 10 * int_of(SubSeq(s, 1, Len(s) - 1)) + DigitOf(s[Len(s)])

\* str(n) for n >= 0
RECURSIVE str_of_int(_)
str_of_int(n) ==
    IF n < 10 THEN <<DigitChars[n + 1]>>
    ELSE str_of_int(n \div 10) \o <<DigitChars[(n % 10) + 1]>>

\* sub in s
str_contains(s, sub) ==
    \E i \in 0..(Len(s) - Len(sub)) : SubSeq(s, i + 1, i + Len(sub)) = sub

-----------------------------------------------------------------------------
(* String literals *)

s_true  == <<"t","r","u","e">>
s_false == <<"f","a","l","s","e">>
s_yes   == <<"y","e","s">>
s_no    == <<"n","o">>
s_1     == <<"1">>
s_0     == <<"0">>
s_True  == <<"T","r","u","e">>
s_False == <<"F","a","l","s","e">>
s_None  == <<"N","o","n","e">>
s_UTC   == <<"U","T","C">>

-----------------------------------------------------------------------------
(* dicts: os.environ and the flattened config file are name -> string;     *)
(* an Optional[dict] argument is None or a dict                            *)

EmptyDict == <<>>
NoDict    == [none |-> TRUE, d |-> EmptyDict]
Dict(d)   == [none |-> FALSE, d |-> d]

\* bool(x) of an Optional[dict]: None and {} are both falsy
DictTruthy(x) == ~x.none /\ DOMAIN x.d # {}

\* x.get(k) of a dict of strings
DictGet(x, k) == IF k \in DOMAIN x.d THEN StrV(x.d[k]) ELSE NoneV

\* {**d, k: v}
DictPut(d, k, v) == (k :> v) @@ d

-----------------------------------------------------------------------------
(* CONFIG_DEFAULTS: the declared base keys, section by section, in         *)
(* declaration order.  The model keeps the bool, int and list keys, the    *)
(* keys with aliases and with computed defaults that the resolution and    *)
(* the writer are exercised on; the Path-valued keys (OUTPUT_DIR,          *)
(* CONFIG_FILE, COOKIES_FILE, CHROME_USER_DATA_DIR, CHROME_BINARY) and the *)
(* remaining plain string keys are left out.                               *)

Static(v)  == [callable |-> FALSE, v |-> v, fn |-> ""]
Lambda(id) == [callable |-> TRUE, v |-> NoneV, fn |-> id]

\* 'ArchiveBox/{VERSION} (+https://github.com/pirate/ArchiveBox/) curl/{CURL_VERSION}'
DEFAULT_CURL_USER_AGENT == <<
    "A","r","c","h","i","v","e","B","o","x","/","{","V","E","R","S",
    "I","O","N","}"," ","(","+","h","t","t","p","s",":","/","/","g",
    "i","t","h","u","b",".","c","o","m","/","p","i","r","a","t","e",
    "/","A","r","c","h","i","v","e","B","o","x","/",")"," ","c","u",
    "r","l","/","{","C","U","R","L","_","V","E","R","S","I","O","N",
    "}">>

CONFIG_DEFAULTS == <<
    [section |-> "SHELL_CONFIG", opts |-> <<
        [key |-> "IS_TTY", type |-> "bool", default |-> Lambda("IS_TTY"),
          aliases |-> <<>>],
        [key |-> "USE_COLOR", type |-> "bool", default |-> Lambda("USE_COLOR"),
          aliases |-> <<>>],
        [key |-> "SHOW_PROGRESS", type |-> "bool", default |-> Lambda("SHOW_PROGRESS"),
          aliases |-> <<>>],
        [key |-> "IN_DOCKER", type |-> "bool", default |-> Static(BoolV(FALSE)),
          aliases |-> <<>>]>>],
    [section |-> "GENERAL_CONFIG", opts |-> <<
        [key |-> "ONLY_NEW", type |-> "bool", default |-> Static(BoolV(TRUE)),
          aliases |-> <<>>],
        [key |-> "TIMEOUT", type |-> "int", default |-> Static(IntV(60)),
          aliases |-> <<>>],
        [key |-> "MEDIA_TIMEOUT", type |-> "int", default |-> Static(IntV(3600)),
          aliases |-> <<>>]>>],
    [section |-> "SERVER_CONFIG", opts |-> <<
        [key |-> "SECRET_KEY", type |-> "str", default |-> Static(NoneV),
          aliases |-> <<>>],
        [key |-> "BIND_ADDR", type |-> "str", default |-> Lambda("BIND_ADDR"),
          aliases |-> <<>>],
        [key |-> "ALLOWED_HOSTS", type |-> "str", default |-> Static(StrV(<<"*">>)),
          aliases |-> <<>>],
        [key |-> "DEBUG", type |-> "bool", default |-> Static(BoolV(FALSE)),
          aliases |-> <<>>]>>],
    [section |-> "ARCHIVE_METHOD_TOGGLES", opts |-> <<
        [key |-> "SAVE_TITLE", type |-> "bool", default |-> Static(BoolV(TRUE)),
          aliases |-> <<"FETCH_TITLE">>],
        [key |-> "SAVE_FAVICON", type |-> "bool", default |-> Static(BoolV(TRUE)),
          aliases |-> <<"FETCH_FAVICON">>],
        [key |-> "SAVE_WGET", type |-> "bool", default |-> Static(BoolV(TRUE)),
          aliases |-> <<"FETCH_WGET">>],
        [key |-> "SAVE_WGET_REQUISITES", type |-> "bool", default |-> Static(BoolV(TRUE)),
          aliases |-> <<"FETCH_WGET_REQUISITES">>],
        [key |-> "SAVE_SINGLEFILE", type |-> "bool", default |-> Static(BoolV(TRUE)),
          aliases |-> <<"FETCH_SINGLEFILE">>],
        [key |-> "SAVE_READABILITY", type |-> "bool", default |-> Static(BoolV(TRUE)),
          aliases |-> <<"FETCH_READABILITY">>],
        [key |-> "SAVE_MERCURY", type |-> "bool", default |-> Static(BoolV(TRUE)),
          aliases |-> <<"FETCH_MERCURY">>],
        [key |-> "SAVE_PDF", type |-> "bool", default |-> Static(BoolV(TRUE)),
          aliases |-> <<"FETCH_PDF">>],
        [key |-> "SAVE_SCREENSHOT", type |-> "bool", default |-> Static(BoolV(TRUE)),
          aliases |-> <<"FETCH_SCREENSHOT">>],
        [key |-> "SAVE_DOM", type |-> "bool", default |-> Static(BoolV(TRUE)),
          aliases |-> <<"FETCH_DOM">>],
        [key |-> "SAVE_HEADERS", type |-> "bool", default |-> Static(BoolV(TRUE)),
          aliases |-> <<"FETCH_HEADERS">>],
        [key |-> "SAVE_WARC", type |-> "bool", default |-> Static(BoolV(TRUE)),
          aliases |-> <<"FETCH_WARC">>],
        [key |-> "SAVE_GIT", type |-> "bool", default |-> Static(BoolV(TRUE)),
          aliases |-> <<"FETCH_GIT">>],
        [key |-> "SAVE_MEDIA", type |-> "bool", default |-> Static(BoolV(TRUE)),
          aliases |-> <<"FETCH_MEDIA">>],
        [key |-> "SAVE_ARCHIVE_DOT_ORG", type |-> "bool", default |-> Static(BoolV(TRUE)),
          aliases |-> <<"SUBMIT_ARCHIVE_DOT_ORG">>]>>],
    [section |-> "ARCHIVE_METHOD_OPTIONS", opts |-> <<
        [key |-> "RESOLUTION", type |-> "str", default |-> Static(StrV(<<"1","4","4","0",",","2","0","0","0">>)),
          aliases |-> <<"SCREENSHOT_RESOLUTION">>],
        [key |-> "CHECK_SSL_VALIDITY", type |-> "bool", default |-> Static(BoolV(TRUE)),
          aliases |-> <<>>],
        [key |-> "CURL_USER_AGENT", type |-> "str", default |-> Static(StrV(DEFAULT_CURL_USER_AGENT)),
          aliases |-> <<>>],
        [key |-> "CHROME_HEADLESS", type |-> "bool", default |-> Static(BoolV(TRUE)),
          aliases |-> <<>>],
        [key |-> "CHROME_SANDBOX", type |-> "bool", default |-> Lambda("CHROME_SANDBOX"),
          aliases |-> <<>>],
        [key |-> "CURL_ARGS", type |-> "list", default |-> Static(ListV(<<StrV(<<"-","-","s","i","l","e","n","t">>), StrV(<<"-","-","l","o","c","a","t","i","o","n">>), StrV(<<"-","-","c","o","m","p","r","e","s","s","e","d">>)>>)),
          aliases |-> <<>>],
        [key |-> "GIT_ARGS", type |-> "list", default |-> Static(ListV(<<StrV(<<"-","-","r","e","c","u","r","s","i","v","e">>)>>)),
          aliases |-> <<>>]>>],
    [section |-> "SEARCH_BACKEND_CONFIG", opts |-> <<
        [key |-> "USE_INDEXING_BACKEND", type |-> "bool", default |-> Static(BoolV(TRUE)),
          aliases |-> <<>>],
        [key |-> "SEARCH_BACKEND_PORT", type |-> "int", default |-> Static(IntV(1491)),
          aliases |-> <<>>]>>],
    [section |-> "DEPENDENCY_CONFIG", opts |-> <<
        [key |-> "USE_CURL", type |-> "bool", default |-> Static(BoolV(TRUE)),
          aliases |-> <<>>],
        [key |-> "USE_WGET", type |-> "bool", default |-> Static(BoolV(TRUE)),
          aliases |-> <<>>],
        [key |-> "USE_SINGLEFILE", type |-> "bool", default |-> Static(BoolV(TRUE)),
          aliases |-> <<>>],
        [key |-> "USE_READABILITY", type |-> "bool", default |-> Static(BoolV(TRUE)),
          aliases |-> <<>>],
        [key |-> "USE_MERCURY", type |-> "bool", default |-> Static(BoolV(TRUE)),
          aliases |-> <<>>],
        [key |-> "USE_GIT", type |-> "bool", default |-> Static(BoolV(TRUE)),
          aliases |-> <<>>],
        [key |-> "USE_CHROME", type |-> "bool", default |-> Static(BoolV(TRUE)),
          aliases |-> <<>>],
        [key |-> "USE_NODE", type |-> "bool", default |-> Static(BoolV(TRUE)),
          aliases |-> <<>>],
        [key |-> "USE_YOUTUBEDL", type |-> "bool", default |-> Static(BoolV(TRUE)),
          aliases |-> <<>>],
        [key |-> "CURL_BINARY", type |-> "str", default |-> Static(StrV(<<"c","u","r","l">>)),
          aliases |-> <<>>],
        [key |-> "MERCURY_BINARY", type |-> "str", default |-> Static(StrV(<<"m","e","r","c","u","r","y","-","p","a","r","s","e","r">>)),
          aliases |-> <<>>]>>]>>

\* the base declarations as one sequence, in evaluation order
RECURSIVE FlattenSections(_, _)
FlattenSections(secs, i) ==
    IF i > Len(secs) THEN <<>> ELSE secs[i].opts \o FlattenSections(secs, i + 1)

BaseDecls == FlattenSections(CONFIG_DEFAULTS, 1)

USER_CONFIG == {BaseDecls[i].key : i \in 1..Len(BaseDecls)}

BaseDecl(key) == BaseDecls[CHOOSE i \in 1..Len(BaseDecls) : BaseDecls[i].key = key]

\* CONFIG_ALIASES: alias -> key
CONFIG_ALIASES ==
    LET pairs == UNION {{<<BaseDecls[i].aliases[j], BaseDecls[i].key>> :
                            j \in 1..Len(BaseDecls[i].aliases)} : i \in 1..Len(BaseDecls)}
    IN [a \in {p[1] : p \in pairs} |-> (CHOOSE p \in pairs : p[1] = a)[2]]

-----------------------------------------------------------------------------
(* What the computed defaults read from outside the configuration *)

\* json.loads(package.json)['version']
PACKAGE_VERSION == <<"0",".","4",".","2","1">>

s_curl == <<"c","u","r","l">>
s_curl_version == <<"c","u","r","l"," ","7",".","8","1",".","0">>

\* bin_version(binary): None without a binary name, else the first three
\* columns of `binary --version` when the binary runs (curl is installed,
\* any other name is not)
bin_version(binary) ==
    IF ~Truthy(binary) THEN NoneV
    ELSE IF binary.s = s_curl THEN StrV(s_curl_version)
    ELSE NoneV

-----------------------------------------------------------------------------
(* str.format with the keys of c as keyword arguments *)

\* str(v)
py_str(v) ==
    CASE v.t = "none" -> s_None
      [] v.t = "bool" -> IF v.b THEN s_True ELSE s_False
      [] v.t = "int"  -> str_of_int(v.n)
      [] OTHER        -> v.s

\* the spelling of the key names that replacement fields of the modelled
\* strings name; a field spelling no key of c is a KeyError
KeySpelling == [
    VERSION      |-> <<"V","E","R","S","I","O","N">>,
    CURL_VERSION |-> <<"C","U","R","L","_","V","E","R","S","I","O","N">>,
    TIMEOUT      |-> <<"T","I","M","E","O","U","T">>]

FieldKeys(c, name) == {k \in DOMAIN c \cap DOMAIN KeySpelling : KeySpelling[k] = name}

\* s.format over the keys of c, from position i on, for replacement fields that are plain
\* names: '{{' and '}}' are literal braces, '{name}' is str(c[name])
RECURSIVE str_format(_, _, _, _)
str_format(s, i, c, acc) ==
    LET braces == {j \in i..Len(s) : s[j] \in {"{", "}"}}
    IN IF braces = {} THEN Ok(StrV(acc \o SubSeq(s, i, Len(s))))
       ELSE LET b   == CHOOSE x \in braces : \A y \in braces : x <= y
                pre == acc \o SubSeq(s, i, b - 1)
            IN IF b < Len(s) /\ s[b + 1] = s[b] THEN str_format(s, b + 2, c, Append(pre, s[b]))
               ELSE IF s[b] = "}" THEN Raise("ValueError")
               ELSE LET close == {j \in (b + 1)..Len(s) : s[j] = "}"}
                    IN IF close = {} THEN Raise("ValueError")
                       ELSE LET j    == CHOOSE x \in close : \A y \in close : x <= y
                                name == SubSeq(s, b + 1, j - 1)
                            IN IF name = <<>> THEN Raise("IndexError")
                               ELSE IF FieldKeys(c, name) = {} THEN Raise("KeyError")
                               ELSE str_format(s, j + 1, c,
                                               pre \o py_str(c[CHOOSE k \in FieldKeys(c, name) : TRUE]))

-----------------------------------------------------------------------------
(* json.loads for the JSON texts of the model: arrays, strings without     *)
(* escapes, integers, true, false and null (no objects, no floats)         *)

JsonErr == [ok |-> FALSE, v |-> NoneV, next |-> 0]
JsonOk(v, next) == [ok |-> TRUE, v |-> v, next |-> next]

\* the first position from i on that holds no whitespace
json_ws(s, i) ==
    LET rest == {j \in i..Len(s) : s[j] \notin SpaceChars}
    IN IF rest = {} THEN Len(s) + 1 ELSE CHOOSE j \in rest : \A k \in rest : j <= k

json_literal(s, j, word, v) ==
    IF j + Len(word) - 1 <= Len(s) /\ SubSeq(s, j, j + Len(word) - 1) = word
    THEN JsonOk(v, j + Len(word))
    ELSE JsonErr

json_number(s, j) ==
    LET neg   == s[j] = "-"
        d0    == IF neg THEN j + 1 ELSE j
        stop  == {k \in d0..Len(s) : ~IsDigit(s[k])}
        end   == IF stop = {} THEN Len(s) + 1 ELSE CHOOSE k \in stop : \A m \in stop : k <= m
        digs  == SubSeq(s, d0, end - 1)
    IN IF digs = <<>> \/ (Len(digs) > 1 /\ digs[1] = "0") THEN JsonErr
       ELSE JsonOk(IntV(IF neg THEN 0 - int_of(digs) ELSE int_of(digs)), end)

json_string(s, j) ==
    LET close == {k \in (j + 1)..Len(s) : s[k] = "\""}
    IN IF close = {} THEN JsonErr
       ELSE LET k == CHOOSE x \in close : \A y \in close : x <= y
            IN JsonOk(StrV(SubSeq(s, j + 1, k - 1)), k + 1)

RECURSIVE json_value(_, _), json_elems(_, _, _)
json_value(s, i) ==
    LET j == json_ws(s, i)
    IN IF j > Len(s) THEN JsonErr
       ELSE IF s[j] = "\"" THEN json_string(s, j)
       ELSE IF s[j] = "[" THEN
            LET j2 == json_ws(s, j + 1)
            IN IF j2 <= Len(s) /\ s[j2] = "]" THEN JsonOk(ListV(<<>>), j2 + 1)
               ELSE json_elems(s, j + 1, <<>>)
       ELSE IF s[j] = "-" \/ IsDigit(s[j]) THEN json_number(s, j)
       ELSE IF s[j] = "t" THEN json_literal(s, j, s_true, BoolV(TRUE))
       ELSE IF s[j] = "f" THEN json_literal(s, j, s_false, BoolV(FALSE))
       ELSE IF s[j] = "n" THEN json_literal(s, j, <<"n","u","l","l">>, NoneV)
       ELSE JsonErr

json_elems(s, i, acc) ==
    LET r == json_value(s, i)
    IN IF ~r.ok THEN JsonErr
       ELSE LET j == json_ws(s, r.next)
            IN IF j > Len(s) THEN JsonErr
               ELSE IF s[j] = "," THEN json_elems(s, j + 1, Append(acc, r.v))
               ELSE IF s[j] = "]" THEN JsonOk(ListV(Append(acc, r.v)), j + 1)
               ELSE JsonErr

\* json.loads(s)
json_loads(s) ==
    LET r == json_value(s, 1)
    IN IF r.ok /\ json_ws(s, r.next) > Len(s) THEN Ok(r.v) ELSE Raise("JSONDecodeError")

-----------------------------------------------------------------------------
(* DERIVED_CONFIG_DEFAULTS, in declaration order: the derived keys computed *)
(* from the modelled base keys (the keys that probe the file system, the   *)
(* terminal or other binaries than curl are left out).  A derived          *)
(* declaration has no 'type' and no 'aliases'.                             *)

Derived(key) == [key |-> key, type |-> "none", default |-> Lambda("DERIVED." \o key),
                 aliases |-> <<>>]

DERIVED_CONFIG_DEFAULTS == <<
    Derived("VERSION"),
    Derived("USE_CURL"), Derived("CURL_VERSION"), Derived("CURL_USER_AGENT"),
    Derived("CURL_ARGS"), Derived("SAVE_FAVICON"), Derived("SAVE_ARCHIVE_DOT_ORG"),
    Derived("USE_WGET"), Derived("SAVE_WGET"), Derived("SAVE_WARC"),
    Derived("USE_SINGLEFILE"), Derived("USE_READABILITY"),
    Derived("USE_MERCURY"), Derived("MERCURY_VERSION"),
    Derived("USE_GIT"), Derived("SAVE_GIT"),
    Derived("USE_YOUTUBEDL"), Derived("SAVE_MEDIA"),
    Derived("USE_CHROME"), Derived("USE_NODE"),
    Derived("SAVE_PDF"), Derived("SAVE_SCREENSHOT"), Derived("SAVE_DOM"),
    Derived("SAVE_SINGLEFILE"), Derived("SAVE_READABILITY"), Derived("SAVE_MERCURY")>>

\* the keys c[...] that a computed default names
LambdaReads(fn) ==
    CASE fn = "IS_TTY"                       -> {}
      [] fn = "USE_COLOR"                    -> {"IS_TTY"}
      [] fn = "SHOW_PROGRESS"                -> {"IS_TTY"}
      [] fn = "BIND_ADDR"                    -> {"IN_DOCKER"}
      [] fn = "CHROME_SANDBOX"               -> {"IN_DOCKER"}
      [] fn = "DERIVED.VERSION"              -> {}
      [] fn = "DERIVED.USE_CURL"             -> {"USE_CURL", "SAVE_FAVICON", "SAVE_TITLE", "SAVE_ARCHIVE_DOT_ORG"}
      [] fn = "DERIVED.CURL_VERSION"         -> {"CURL_BINARY", "USE_CURL"}
      [] fn = "DERIVED.CURL_USER_AGENT"      -> {"CURL_USER_AGENT"}
      [] fn = "DERIVED.CURL_ARGS"            -> {"CURL_ARGS"}
      [] fn = "DERIVED.SAVE_FAVICON"         -> {"USE_CURL", "SAVE_FAVICON"}
      [] fn = "DERIVED.SAVE_ARCHIVE_DOT_ORG" -> {"USE_CURL", "SAVE_ARCHIVE_DOT_ORG"}
      [] fn = "DERIVED.USE_WGET"             -> {"USE_WGET", "SAVE_WGET", "SAVE_WARC"}
      [] fn = "DERIVED.SAVE_WGET"            -> {"USE_WGET", "SAVE_WGET"}
      [] fn = "DERIVED.SAVE_WARC"            -> {"USE_WGET", "SAVE_WARC"}
      [] fn = "DERIVED.USE_SINGLEFILE"       -> {"USE_SINGLEFILE", "SAVE_SINGLEFILE"}
      [] fn = "DERIVED.USE_READABILITY"      -> {"USE_READABILITY", "SAVE_READABILITY"}
      [] fn = "DERIVED.USE_MERCURY"          -> {"USE_MERCURY", "SAVE_MERCURY"}
      [] fn = "DERIVED.MERCURY_VERSION"      -> {"USE_MERCURY", "MERCURY_BINARY"}
      [] fn = "DERIVED.USE_GIT"              -> {"USE_GIT", "SAVE_GIT"}
      [] fn = "DERIVED.SAVE_GIT"             -> {"USE_GIT", "SAVE_GIT"}
      [] fn = "DERIVED.USE_YOUTUBEDL"        -> {"USE_YOUTUBEDL", "SAVE_MEDIA"}
      [] fn = "DERIVED.SAVE_MEDIA"           -> {"USE_YOUTUBEDL", "SAVE_MEDIA"}
      [] fn = "DERIVED.USE_CHROME"           -> {"USE_CHROME", "SAVE_PDF", "SAVE_SCREENSHOT", "SAVE_DOM", "SAVE_SINGLEFILE"}
      [] fn = "DERIVED.USE_NODE"             -> {"USE_NODE", "SAVE_READABILITY", "SAVE_SINGLEFILE"}
      [] fn = "DERIVED.SAVE_PDF"             -> {"USE_CHROME", "SAVE_PDF"}
      [] fn = "DERIVED.SAVE_SCREENSHOT"      -> {"USE_CHROME", "SAVE_SCREENSHOT"}
      [] fn = "DERIVED.SAVE_DOM"             -> {"USE_CHROME", "SAVE_DOM"}
      [] fn = "DERIVED.SAVE_SINGLEFILE"      -> {"USE_CHROME", "SAVE_SINGLEFILE", "USE_NODE"}
      [] fn = "DERIVED.SAVE_READABILITY"     -> {"USE_READABILITY", "USE_NODE"}
      [] fn = "DERIVED.SAVE_MERCURY"         -> {"USE_MERCURY", "USE_NODE"}

\* ['127.0.0.1:8000', '0.0.0.0:8000']
BIND_ADDRS == << <<"1","2","7",".","0",".","0",".","1",":","8","0","0","0">>,
                 <<"0",".","0",".","0",".","0",":","8","0","0","0">> >>

\* the body of each lambda, for a c that holds the keys it names
LambdaBody(fn, c) ==
    CASE fn = "IS_TTY"                       -> Ok(BoolV(stdout_isatty))
      [] fn = "USE_COLOR"                    -> Ok(c["IS_TTY"])
      [] fn = "SHOW_PROGRESS"                -> Ok(c["IS_TTY"])
      [] fn = "BIND_ADDR"                    -> Ok(StrV(BIND_ADDRS[IF Truthy(c["IN_DOCKER"]) THEN 2 ELSE 1]))
      [] fn = "CHROME_SANDBOX"               -> Ok(PyNot(c["IN_DOCKER"]))
      [] fn = "DERIVED.VERSION"              -> Ok(StrV(PACKAGE_VERSION))
      [] fn = "DERIVED.USE_CURL"             -> Ok(PyAnd(c["USE_CURL"], PyOr(PyOr(c["SAVE_FAVICON"], c["SAVE_TITLE"]), c["SAVE_ARCHIVE_DOT_ORG"])))
      [] fn = "DERIVED.CURL_VERSION"         -> Ok(IF Truthy(c["USE_CURL"]) THEN bin_version(c["CURL_BINARY"]) ELSE NoneV)
      [] fn = "DERIVED.CURL_USER_AGENT"      -> str_format(c["CURL_USER_AGENT"].s, 1, c, <<>>)
      [] fn = "DERIVED.CURL_ARGS"            -> Ok(PyOr(c["CURL_ARGS"], ListV(<<>>)))
      [] fn = "DERIVED.SAVE_FAVICON"         -> Ok(PyAnd(c["USE_CURL"], c["SAVE_FAVICON"]))
      [] fn = "DERIVED.SAVE_ARCHIVE_DOT_ORG" -> Ok(PyAnd(c["USE_CURL"], c["SAVE_ARCHIVE_DOT_ORG"]))
      [] fn = "DERIVED.USE_WGET"             -> Ok(PyAnd(c["USE_WGET"], PyOr(c["SAVE_WGET"], c["SAVE_WARC"])))
      [] fn = "DERIVED.SAVE_WGET"            -> Ok(PyAnd(c["USE_WGET"], c["SAVE_WGET"]))
      [] fn = "DERIVED.SAVE_WARC"            -> Ok(PyAnd(c["USE_WGET"], c["SAVE_WARC"]))
      [] fn = "DERIVED.USE_SINGLEFILE"       -> Ok(PyAnd(c["USE_SINGLEFILE"], c["SAVE_SINGLEFILE"]))
      [] fn = "DERIVED.USE_READABILITY"      -> Ok(PyAnd(c["USE_READABILITY"], c["SAVE_READABILITY"]))
      [] fn = "DERIVED.USE_MERCURY"          -> Ok(PyAnd(c["USE_MERCURY"], c["SAVE_MERCURY"]))
      [] fn = "DERIVED.MERCURY_VERSION"      -> Ok(IF Truthy(PyAnd(c["USE_MERCURY"], c["MERCURY_BINARY"]))
                                                   THEN StrV(<<"1",".","0",".","0">>) ELSE NoneV)
      [] fn = "DERIVED.USE_GIT"              -> Ok(PyAnd(c["USE_GIT"], c["SAVE_GIT"]))
      [] fn = "DERIVED.SAVE_GIT"             -> Ok(PyAnd(c["USE_GIT"], c["SAVE_GIT"]))
      [] fn = "DERIVED.USE_YOUTUBEDL"        -> Ok(PyAnd(c["USE_YOUTUBEDL"], c["SAVE_MEDIA"]))
      [] fn = "DERIVED.SAVE_MEDIA"           -> Ok(PyAnd(c["USE_YOUTUBEDL"], c["SAVE_MEDIA"]))
      [] fn = "DERIVED.USE_CHROME"           -> Ok(PyAnd(c["USE_CHROME"], PyOr(PyOr(PyOr(c["SAVE_PDF"], c["SAVE_SCREENSHOT"]), c["SAVE_DOM"]), c["SAVE_SINGLEFILE"])))
      [] fn = "DERIVED.USE_NODE"             -> Ok(PyAnd(c["USE_NODE"], PyOr(c["SAVE_READABILITY"], c["SAVE_SINGLEFILE"])))
      [] fn = "DERIVED.SAVE_PDF"             -> Ok(PyAnd(c["USE_CHROME"], c["SAVE_PDF"]))
      [] fn = "DERIVED.SAVE_SCREENSHOT"      -> Ok(PyAnd(c["USE_CHROME"], c["SAVE_SCREENSHOT"]))
      [] fn = "DERIVED.SAVE_DOM"             -> Ok(PyAnd(c["USE_CHROME"], c["SAVE_DOM"]))
      [] fn = "DERIVED.SAVE_SINGLEFILE"      -> Ok(PyAnd(PyAnd(c["USE_CHROME"], c["SAVE_SINGLEFILE"]), c["USE_NODE"]))
      [] fn = "DERIVED.SAVE_READABILITY"     -> Ok(PyAnd(c["USE_READABILITY"], c["USE_NODE"]))
      [] fn = "DERIVED.SAVE_MERCURY"         -> Ok(PyAnd(c["USE_MERCURY"], c["USE_NODE"]))

\* default(config): a lambda that names a key config lacks raises KeyError
call_default(fn, c) ==
    IF LambdaReads(fn) \subseteq DOMAIN c THEN LambdaBody(fn, c) ELSE Raise("KeyError")

-----------------------------------------------------------------------------
(* load_config_val *)

\* the for loop over config_keys_to_check: `val` is what the last executed
\* .get() returned, and is never bound when both sources are falsy
RECURSIVE ProbeLoop(_, _, _, _, _)
ProbeLoop(names, i, val, env_vars, config_file_vars) ==
    IF i > Len(names) THEN val
    ELSE LET v1 == IF DictTruthy(env_vars) THEN DictGet(env_vars, names[i]) ELSE val
         IN IF DictTruthy(env_vars) /\ Truthy(v1) THEN v1
            ELSE LET v2 == IF DictTruthy(config_file_vars)
                           THEN DictGet(config_file_vars, names[i]) ELSE v1
                 IN IF DictTruthy(config_file_vars) /\ Truthy(v2) THEN v2
                    ELSE ProbeLoop(names, i + 1, v2, env_vars, config_file_vars)

BOOL_TRUE  == {s_true, s_yes, s_1}
BOOL_FALSE == {s_false, s_no, s_0}

\* the elif chain on `type` with val.strip() taken before the tests
Coerce_strip_first(type, val) ==
    CASE type = "bool" -> IF str_lower(str_strip(val)) \in BOOL_TRUE THEN Ok(BoolV(TRUE))
                          ELSE IF str_lower(str_strip(val)) \in BOOL_FALSE THEN Ok(BoolV(FALSE))
                          ELSE Raise("ValueError")
      [] type = "str"  -> IF str_lower(str_strip(val)) \in BOOL_TRUE \cup BOOL_FALSE
                          THEN Raise("ValueError")
                          ELSE Ok(StrV(str_strip(val)))
      [] type = "int"  -> IF ~str_isdigit(str_strip(val)) THEN Raise("ValueError")
                          ELSE Ok(IntV(int_of(str_strip(val))))
      [] type = "list" -> json_loads(val)
      [] OTHER         -> Raise("Exception")

\* the elif chain on `type`, for a val that is a string
Coerce(type, val) ==
    CASE type = "bool" -> IF str_lower(val) \in BOOL_TRUE THEN Ok(BoolV(TRUE))
                          ELSE IF str_lower(val) \in BOOL_FALSE THEN Ok(BoolV(FALSE))
                          ELSE Raise("ValueError")
      [] type = "str"  -> IF str_lower(val) \in BOOL_TRUE \cup BOOL_FALSE THEN Raise("ValueError")
                          ELSE Ok(StrV(str_strip(val)))
      [] type = "int"  -> IF ~str_isdigit(val) THEN Raise("ValueError")
                          ELSE Ok(IntV(int_of(val)))
      [] type = "list" -> json_loads(val)
      [] OTHER         -> Raise("Exception")

DefaultOf(default, config) ==
    IF default.callable THEN call_default(default.fn, config) ELSE Ok(default.v)

load_config_val(key, default, type, aliases, config, env_vars, config_file_vars) ==
    LET Convert(val) ==
            IF type # "none" /\ val.t = "unbound" THEN Raise("UnboundLocalError")
            ELSE IF type = "none" \/ val.t = "none" THEN DefaultOf(default, config)
            ELSE Coerce(type, val.s)
    IN Convert(ProbeLoop(<<key>> \o aliases, 1, Unbound, env_vars, config_file_vars))


-----------------------------------------------------------------------------
(* load_config and load_all_config *)

\* the for loop of load_config with extended_config.setdefault(key, val) in
\* place of the assignment: a key the mapping already holds keeps its value
RECURSIVE LoadLoop_keep_first(_, _, _, _, _)
LoadLoop_keep_first(defaults, i, extended_config, env_vars, config_file_vars) ==
    IF i > Len(defaults)
    THEN [ok |-> TRUE, cfg |-> extended_config, exc |-> "", key |-> ""]
    ELSE LET d == defaults[i]
             Step(r) ==
                 IF r.ok
                 THEN LoadLoop_keep_first(defaults, i + 1,
                                          extended_config @@ (d.key :> r.v),
                                          env_vars, config_file_vars)
                 ELSE [ok |-> FALSE, cfg |-> extended_config, exc |-> r.exc, key |-> d.key]
         IN Step(load_config_val(d.key, d.default, d.type, d.aliases,
                                 extended_config, env_vars, config_file_vars))

\* the for loop of load_config over defaults[i..]: extended_config grows key
\* by key; the first exception ends the loop and is re-raised
RECURSIVE LoadLoop(_, _, _, _, _)
LoadLoop(defaults, i, extended_config, env_vars, config_file_vars) ==
    IF i > Len(defaults)
    THEN [ok |-> TRUE, cfg |-> extended_config, exc |-> "", key |-> ""]
    ELSE LET d == defaults[i]
             Step(r) ==
                 IF r.ok
                 THEN LoadLoop(defaults, i + 1, DictPut(extended_config, d.key, r.v),
                               env_vars, config_file_vars)
                 ELSE [ok |-> FALSE, cfg |-> extended_config, exc |-> r.exc, key |-> d.key]
         IN Step(load_config_val(d.key, d.default, d.type, d.aliases,
                                 extended_config, env_vars, config_file_vars))

\* load_config writing to the mapping it was given instead of to a copy
load_config_in_place(defaults, config, env_vars, config_file_vars) ==
    LET Result(r) == [ok |-> r.ok, ret |-> IF r.ok THEN r.cfg ELSE EmptyDict,
                      exc |-> r.exc, key |-> r.key, config |-> r.cfg]
    IN Result(LoadLoop(defaults, 1, config, env_vars, config_file_vars))

\* load_config(defaults, config) with env_vars = os.environ and
\* config_file_vars = load_config_file(): ret is the returned mapping, config
\* is the caller's mapping as the call leaves it (the loop works on
\* config.copy())
load_config(defaults, config, env_vars, config_file_vars) ==
    LET Result(r) == [ok |-> r.ok, ret |-> IF r.ok THEN r.cfg ELSE EmptyDict,
                      exc |-> r.exc, key |-> r.key, config |-> config]
    IN Result(LoadLoop(defaults, 1, config, env_vars, config_file_vars))

\* the for loop of load_all_config over the sections from i on, then the
\* derived declarations; arg and arg_after are the mapping given to the last
\* load_config call, before and after that call
RECURSIVE LoadSections(_, _, _, _)
LoadSections(i, cfg, env_vars, config_file_vars) ==
    LET defaults == IF i > Len(CONFIG_DEFAULTS) THEN DERIVED_CONFIG_DEFAULTS
                    ELSE CONFIG_DEFAULTS[i].opts
        Step(r) ==
            IF r.ok /\ i <= Len(CONFIG_DEFAULTS)
            THEN LoadSections(i + 1, r.ret, env_vars, config_file_vars)
            ELSE [ok |-> r.ok, ret |-> r.ret, exc |-> r.exc, key |-> r.key,
                  arg |-> cfg, arg_after |-> r.config]
    IN Step(load_config(defaults, cfg, env_vars, config_file_vars))

-----------------------------------------------------------------------------
(* The config file.  A file is absent or a text; of a text the model keeps *)
(* its sections with their KEY = VALUE lines in file order, and in `extra` *)
(* what else it holds (comment lines, hand-made layout), which             *)
(* ConfigParser does not read and does not write back.  The files of the   *)
(* model hold no [DEFAULT] section, no '%' and no duplicate section or key.*)

Absent == [exists |-> FALSE, extra |-> "", body |-> <<>>]
Text(extra, body) == [exists |-> TRUE, extra |-> extra, body |-> body]

\* atomic_write(config_path, CONFIG_HEADER)
HeaderFile == Text("CONFIG_HEADER", <<>>)

\* key.upper() for the key names of the model
name_upper(k) == IF k = "timeout" THEN "TIMEOUT" ELSE k

\* the options of one section as ConfigParser reads them: values stripped
RECURSIVE ReadOpts(_)
ReadOpts(opts) ==
    IF opts = <<>> THEN <<>>
    ELSE <<[key |-> Head(opts).key, val |-> str_strip(Head(opts).val)]>> \o ReadOpts(Tail(opts))

RECURSIVE ReadSections(_)
ReadSections(body) ==
    IF body = <<>> THEN <<>>
    ELSE <<[section |-> Head(body).section, opts |-> ReadOpts(Head(body).opts)]>>
         \o ReadSections(Tail(body))

\* ConfigParser.read: sections and options in file order
ConfigParser_read(file) == ReadSections(file.body)

\* ConfigParser.write
ConfigParser_write(config_file) == Text("", config_file)

\* {key.upper(): val for section, options in config_file.items()
\*                   for key, val in options.items()}
RECURSIVE FlattenOpts(_, _, _)
FlattenOpts(opts, j, acc) ==
    IF j > Len(opts) THEN acc
    ELSE FlattenOpts(opts, j + 1, DictPut(acc, name_upper(opts[j].key), opts[j].val))

RECURSIVE FlattenFile(_, _, _)
FlattenFile(config_file, i, acc) ==
    IF i > Len(config_file) THEN acc
    ELSE FlattenFile(config_file, i + 1, FlattenOpts(config_file[i].opts, 1, acc))

\* load_config_file(): None when the file does not exist
load_config_file(file) ==
    IF file.exists THEN Dict(FlattenFile(ConfigParser_read(file), 1, EmptyDict))
    ELSE NoDict

\* load_all_config() under os.environ = env and the config file `file`
load_all_config(env, file) == LoadSections(1, EmptyDict, Dict(env), load_config_file(file))


-----------------------------------------------------------------------------
(* write_config_file *)

\* find_section(key): the sections whose declarations hold key, in order;
\* find_section takes element [0] and raises IndexError when there is none
SectionsOf(key) ==
    {i \in 1..Len(CONFIG_DEFAULTS) :
        \E j \in 1..Len(CONFIG_DEFAULTS[i].opts) : CONFIG_DEFAULTS[i].opts[j].key = key}

find_section(key) ==
    CONFIG_DEFAULTS[CHOOSE i \in SectionsOf(key) : \A k \in SectionsOf(key) : i <= k].section

\* section in config_file
HasSection(config_file, section) ==
    \E i \in 1..Len(config_file) : config_file[i].section = section

SectionOpts(config_file, section) ==
    config_file[CHOOSE i \in 1..Len(config_file) : config_file[i].section = section].opts

\* key in options
HasOpt(opts, key) == \E j \in 1..Len(opts) : opts[j].key = key

OptVal(opts, key) == opts[CHOOSE j \in 1..Len(opts) : opts[j].key = key].val

\* {**existing_config, key: val} with the operands swapped: an existing key
\* keeps its old value
OptsPut_keep_existing(opts, key, val) ==
    IF \E j \in 1..Len(opts) : opts[j].key = key THEN opts
    ELSE Append(opts, [key |-> key, val |-> val])

\* {key: val} alone: the options the section held are left out
OptsPut_alone(opts, key, val) == <<[key |-> key, val |-> val]>>

\* {**existing_config, key: val}: an existing key keeps its place, a new one
\* goes last
OptsPut(opts, key, val) ==
    IF HasOpt(opts, key)
    THEN LET j == CHOOSE x \in 1..Len(opts) : opts[x].key = key
         IN SubSeq(opts, 1, j - 1) \o <<[key |-> key, val |-> val]>>
            \o SubSeq(opts, j + 1, Len(opts))
    ELSE Append(opts, [key |-> key, val |-> val])

\* config_file[section] = opts: an existing section keeps its place, a new
\* one goes last
SetSection(config_file, section, opts) ==
    IF HasSection(config_file, section)
    THEN LET i == CHOOSE x \in 1..Len(config_file) : config_file[x].section = section
         IN SubSeq(config_file, 1, i - 1) \o <<[section |-> section, opts |-> opts]>>
            \o SubSeq(config_file, i + 1, Len(config_file))
    ELSE Append(config_file, [section |-> section, opts |-> opts])

\* the for loop over config.items() from item i on; config is the sequence
\* of the dict's items
RECURSIVE AssignLoop(_, _, _)
AssignLoop(config_file, config, i) ==
    IF i > Len(config) THEN [ok |-> TRUE, config_file |-> config_file]
    ELSE IF SectionsOf(config[i].key) = {} THEN [ok |-> FALSE, config_file |-> config_file]
    ELSE LET section == find_section(config[i].key)
             existing_config == IF HasSection(config_file, section)
                                THEN SectionOpts(config_file, section) ELSE <<>>
         IN AssignLoop(SetSection(config_file, section,
                                  OptsPut(existing_config, config[i].key, config[i].val)),
                       config, i + 1)

s_not_a_valid_secret ==
    <<"n","o","t"," ","a"," ","v","a","l","i","d"," ","s","e","c","r","e","t">>

\* "always make sure there's a SECRET_KEY defined for Django"
EnsureSecret(config_file, random_secret_key) ==
    LET has == HasSection(config_file, "SERVER_CONFIG")
               /\ HasOpt(SectionOpts(config_file, "SERVER_CONFIG"), "SECRET_KEY")
        existing_secret_key ==
            IF has THEN StrV(OptVal(SectionOpts(config_file, "SERVER_CONFIG"), "SECRET_KEY"))
            ELSE NoneV
    IN IF ~Truthy(existing_secret_key)
          \/ str_contains(existing_secret_key.s, s_not_a_valid_secret)
       THEN IF HasSection(config_file, "SERVER_CONFIG")
            THEN SetSection(config_file, "SERVER_CONFIG",
                            OptsPut(SectionOpts(config_file, "SERVER_CONFIG"),
                                    "SECRET_KEY", random_secret_key))
            ELSE Append(config_file,
                        [section |-> "SERVER_CONFIG",
                         opts |-> <<[key |-> "SECRET_KEY", val |-> random_secret_key]>>])
       ELSE config_file

\* {key.upper(): CONFIG.get(key.upper()) for key in config.keys()}
RECURSIVE ReturnedValues(_, _, _, _)
ReturnedValues(config, i, snapshot, acc) ==
    IF i > Len(config) THEN acc
    ELSE LET k == name_upper(config[i].key)
         IN ReturnedValues(config, i + 1, snapshot,
                           DictPut(acc, k, IF k \in DOMAIN snapshot THEN snapshot[k] ELSE NoneV))

\* what the try block leaves when load_all_config() returned: the file as
\* written, and the return inside the try, which skips the os.remove below
CommitWrite(config, written, backup, snapshot) ==
    [conf |-> written, bak |-> backup, outcome |-> "returned", exc |-> "",
     ret |-> ReturnedValues(config, 1, snapshot, EmptyDict), validated |-> TRUE]

\* an except block that does not write the backup over the config file
Rollback_keep_written(written, backup, exc) ==
    [conf |-> written, bak |-> Absent, outcome |-> "returned", exc |-> exc,
     ret |-> EmptyDict, validated |-> FALSE]

\* what the except block and the lines after it leave: the backup written
\* over the config file, the backup removed, {} returned
Rollback(written, backup, exc) ==
    [conf |-> backup, bak |-> Absent, outcome |-> "returned", exc |-> exc,
     ret |-> EmptyDict, validated |-> FALSE]

\* write_config_file with the try/except left out: whatever was written
\* stays, and the requested keys are returned from what the pass produced
write_config_file_unvalidated(config, env, file0, random_secret_key) ==
    LET created == IF ~file0.exists THEN HeaderFile ELSE file0
        Assign(assigned) ==
            IF ~assigned.ok
            THEN [conf |-> created, bak |-> created, outcome |-> "raised",
                  exc |-> "IndexError", ret |-> EmptyDict, validated |-> FALSE]
            ELSE [conf |-> ConfigParser_write(EnsureSecret(assigned.config_file,
                                                           random_secret_key)),
                  bak |-> created, outcome |-> "returned", exc |-> "",
                  ret |-> EmptyDict, validated |-> FALSE]
    IN Assign(AssignLoop(ConfigParser_read(created), config, 1))

\* write_config_file(config) with out_dir left out, on the config file
\* file0, under os.environ = env, get_random_string returning
\* random_secret_key: the disk it leaves and what it returns or raises
write_config_file(config, env, file0, random_secret_key) ==
    LET created == IF ~file0.exists THEN HeaderFile ELSE file0
        backup  == created
        Validate(written, pass) ==
            IF pass.ok THEN CommitWrite(config, written, backup, pass.ret)
            ELSE Rollback(written, backup, pass.exc)
        Try(written) == Validate(written, load_all_config(env, written))
        Assign(assigned) ==
            IF ~assigned.ok
            THEN [conf |-> created, bak |-> backup, outcome |-> "raised",
                  exc |-> "IndexError", ret |-> EmptyDict, validated |-> FALSE]
            ELSE Try(ConfigParser_write(EnsureSecret(assigned.config_file,
                                                     random_secret_key)))
    IN Assign(AssignLoop(ConfigParser_read(created), config, 1))


-----------------------------------------------------------------------------
(* The process: import archivebox.config, then calls of write_config_file  *)
(* and load_all_config and changes of os.environ, on one collection        *)

MaxCalls == 2

s_5     == <<"5">>
s_30sp  == <<"3","0"," ">>
s_45    == <<"4","5">>
s_abc   == <<"a","b","c">>
s_bin   == <<"/","b","i","n">>
s_xFOO  == <<"x","{","F","O","O","}">>
s_s3cr3t == <<"s","3","c","r","3","t">>

SECRET_KEY_LENGTH == 50

\* get_random_string(50, chars): two of the strings it can return
RECURSIVE Repeat(_, _)
Repeat(ch, n) == IF n = 0 THEN <<>> ELSE <<ch>> \o Repeat(ch, n - 1)

RandomSecrets == {Repeat(ch, SECRET_KEY_LENGTH) : ch \in {"a", "9"}}

\* os.environ when the process starts
InitEnvirons == {
    [PATH |-> s_bin],
    [PATH |-> s_bin, TIMEOUT |-> s_5],
    [PATH |-> s_bin, TIMEOUT |-> s_abc],
    [PATH |-> s_bin, FETCH_WGET |-> s_False]}

\* ArchiveBox.conf when the process starts
UserFile ==
    Text("comments",
         <<[section |-> "GENERAL_CONFIG", opts |-> <<[key |-> "TIMEOUT", val |-> s_30sp]>>],
           [section |-> "SERVER_CONFIG", opts |-> <<[key |-> "SECRET_KEY", val |-> s_s3cr3t]>>]>>)

WgetFile ==
    Text("",
         <<[section |-> "ARCHIVE_METHOD_TOGGLES", opts |-> <<[key |-> "SAVE_WGET", val |-> s_True]>>],
           [section |-> "DEPENDENCY_CONFIG", opts |-> <<[key |-> "USE_WGET", val |-> s_False]>>]>>)

InitFiles == {Absent, UserFile, WgetFile}

\* the config arguments of write_config_file: the items of the dict
Item(k, v) == [key |-> k, val |-> v]

WriteArgs == {
    <<Item("TIMEOUT", s_45)>>,
    <<Item("TIMEOUT", s_abc)>>,
    <<Item("CURL_USER_AGENT", s_xFOO)>>,
    <<Item("SAVE_WGET", s_True)>>,
    <<Item("ONLY_NEW", s_no)>>,
    <<Item("FOO", s_1)>>}

\* os.environ[name] = value by the host application
EnvEdits == {<<"TIMEOUT", s_5>>, <<"TIMEOUT", s_abc>>}

NoCall == [op |-> "none", config |-> <<>>, pre_conf |-> Absent, pre_bak |-> Absent,
           pre_CONFIG |-> EmptyDict, pre_ok |-> FALSE, outcome |-> "", exc |-> "", ret |-> EmptyDict,
           validated |-> FALSE, arg |-> EmptyDict, arg_after |-> EmptyDict,
           pre_environ |-> EmptyDict,
           before |-> [op |-> "none", config |-> <<>>, validated |-> FALSE]]

\* what a call remembers of the call made just before it
Before == [op |-> call.op, config |-> call.config, validated |-> call.validated]

NoProbe == [key |-> "", env_vars |-> NoDict, config_file_vars |-> NoDict,
            config |-> EmptyDict, alias |-> "", v |-> <<>>, done |-> "no",
            res |-> Raise(""), res_alias |-> Raise(""), res_key |-> Raise("")]

\* the threads that call write_config_file, and a thread that has not
\* called it yet
Threads == {"t1", "t2"}

NoThread == [at |-> "idle", config |-> <<>>, config_file |-> <<>>,
             random_secret_key |-> <<>>, exc |-> "", ret |-> EmptyDict]

NoThreads == [t \in Threads |-> NoThread]

Init ==
    /\ pc = "boot"
    /\ environ \in InitEnvirons
    /\ conf \in InitFiles
    /\ bak = Absent
    /\ CONFIG = EmptyDict
    /\ stdout_isatty \in BOOLEAN
    /\ call = NoCall
    /\ ncalls = 0
    /\ probe = NoProbe
    /\ threads = NoThreads

\* import archivebox.config: CONFIG = load_all_config() at module level,
\* then os.environ["TZ"] = 'UTC'; an exception ends the import
Import ==
    /\ pc = "boot"
    /\ \E r \in {load_all_config(environ, conf)} :
          /\ pc' = IF r.ok THEN "ready" ELSE "crashed"
          /\ CONFIG' = IF r.ok THEN r.ret ELSE CONFIG
          /\ environ' = IF r.ok THEN DictPut(environ, "TZ", s_UTC) ELSE environ
          /\ call' = [NoCall EXCEPT !.op = "import", !.pre_conf = conf, !.pre_bak = bak,
                                    !.pre_CONFIG = CONFIG, !.pre_environ = environ,
                                    !.outcome = IF r.ok THEN "returned" ELSE "raised",
                                    !.exc = r.exc, !.ret = r.ret,
                                    !.arg = r.arg, !.arg_after = r.arg_after]
    /\ UNCHANGED <<conf, bak, stdout_isatty, ncalls, probe, threads>>

\* a call write_config_file(config); its CONFIG is a local variable, the
\* module-level CONFIG is not assigned
WriteConfigFile(config, random_secret_key) ==
    /\ pc = "ready"
    /\ ncalls < MaxCalls
    /\ \E w \in {write_config_file(config, environ, conf, random_secret_key)} :
          /\ conf' = w.conf
          /\ bak' = w.bak
          /\ call' = [NoCall EXCEPT !.op = "write", !.config = config,
                                    !.pre_conf = conf, !.pre_bak = bak,
                                    !.pre_CONFIG = CONFIG, !.pre_environ = environ,
                                    !.before = Before,
                                    !.pre_ok = load_all_config(environ, conf).ok,
                                    !.outcome = w.outcome, !.exc = w.exc, !.ret = w.ret,
                                    !.validated = w.validated]
    /\ ncalls' = ncalls + 1
    /\ UNCHANGED <<pc, environ, CONFIG, stdout_isatty, probe, threads>>

\* a call load_all_config() by another component
LoadAllConfig ==
    /\ pc = "ready"
    /\ ncalls < MaxCalls
    /\ \E r \in {load_all_config(environ, conf)} :
          call' = [NoCall EXCEPT !.op = "load", !.pre_conf = conf, !.pre_bak = bak,
                                 !.pre_CONFIG = CONFIG, !.pre_ok = r.ok,
                                 !.pre_environ = environ, !.before = Before,
                                 !.outcome = IF r.ok THEN "returned" ELSE "raised",
                                 !.exc = r.exc, !.ret = r.ret,
                                 !.arg = r.arg, !.arg_after = r.arg_after]
    /\ ncalls' = ncalls + 1
    /\ UNCHANGED <<pc, environ, conf, bak, CONFIG, stdout_isatty, probe, threads>>

\* os.environ[name] = value
Putenv(name, value) ==
    /\ pc = "ready"
    /\ ncalls < MaxCalls
    /\ environ' = DictPut(environ, name, value)
    /\ call' = [NoCall EXCEPT !.op = "putenv", !.pre_conf = conf, !.pre_bak = bak,
                              !.pre_CONFIG = CONFIG, !.pre_environ = environ,
                              !.before = Before]
    /\ ncalls' = ncalls + 1
    /\ UNCHANGED <<pc, conf, bak, CONFIG, stdout_isatty, probe, threads>>

Next ==
    \/ Import
    \/ \E config \in WriteArgs, k \in RandomSecrets : WriteConfigFile(config, k)
    \/ LoadAllConfig
    \/ \E e \in EnvEdits : Putenv(e[1], e[2])

Spec == Init /\ [][Next]_vars

-----------------------------------------------------------------------------
(* Direct calls of load_config_val: one declared base key, an environment  *)
(* and a flattened config file that hold the key, its alias, both or       *)
(* neither, and the config resolved so far                                 *)

s_json_a == <<"[","\"","a","\"","]">>

\* raw values by declared type: what the environment holds, what the file
\* holds, and a value the type's coercion rejects
RawEnv(type) ==
    CASE type = "bool" -> s_False
      [] type = "int"  -> s_5
      [] type = "str"  -> s_abc
      [] OTHER         -> s_json_a

RawFile(type) ==
    CASE type = "bool" -> s_yes
      [] type = "int"  -> s_45
      [] type = "str"  -> s_bin
      [] OTHER         -> <<"[","]">>

RawBad(type) == IF type = "str" THEN s_true ELSE s_abc

\* no entry for name, or one entry name -> v
Entries(name, vals) == {EmptyDict} \cup {name :> v : v \in vals}

AliasEntries(d, vals) ==
    IF d.aliases = <<>> THEN {EmptyDict} ELSE Entries(d.aliases[1], vals)

EnvMaps(d) ==
    {p @@ a @@ b : p \in {EmptyDict, [PATH |-> s_bin]},
                   a \in Entries(d.key, {<<>>, RawEnv(d.type), RawBad(d.type)}),
                   b \in AliasEntries(d, {<<>>, RawEnv(d.type), RawBad(d.type)})}

FileMaps(d) ==
    {NoDict} \cup {Dict(a @@ b) : a \in Entries(d.key, {<<>>, RawFile(d.type)}),
                                  b \in AliasEntries(d, {<<>>, RawFile(d.type)})}

\* the config resolved so far: the keys the computed defaults of base keys read
ConfigsSoFar ==
    {[IS_TTY |-> BoolV(stdout_isatty), IN_DOCKER |-> BoolV(b)] : b \in BOOLEAN}

InitVal ==
    /\ pc = "val"
    /\ environ = EmptyDict
    /\ conf = Absent
    /\ bak = Absent
    /\ CONFIG = EmptyDict
    /\ stdout_isatty \in BOOLEAN
    /\ call = NoCall
    /\ ncalls = 0
    /\ threads = NoThreads
    /\ \E i \in 1..Len(BaseDecls) :
          \E env_vars \in EnvMaps(BaseDecls[i]), config_file_vars \in FileMaps(BaseDecls[i]),
             config \in ConfigsSoFar :
             probe = [NoProbe EXCEPT !.key = BaseDecls[i].key, !.env_vars = Dict(env_vars),
                                     !.config_file_vars = config_file_vars,
                                     !.config = config]

\* load_config_val(key, default, type, aliases, config, env_vars, config_file_vars)
\* for the declaration of probe.key under the given environment
ProbeCall(env_vars) ==
    load_config_val(probe.key, BaseDecl(probe.key).default, BaseDecl(probe.key).type,
                    BaseDecl(probe.key).aliases, probe.config, env_vars,
                    probe.config_file_vars)

CallLoadConfigVal ==
    /\ pc = "val"
    /\ probe.done = "no"
    /\ probe' = [probe EXCEPT !.done = "val", !.res = ProbeCall(probe.env_vars)]
    /\ UNCHANGED <<pc, environ, conf, bak, CONFIG, stdout_isatty, call, ncalls, threads>>

\* the same call twice, under an environment that names neither the key nor
\* its alias extended once by alias = v and once by key = v
CallAliasPair(v) ==
    /\ pc = "val"
    /\ probe.done = "no"
    /\ \E alias \in DOMAIN CONFIG_ALIASES :
          /\ CONFIG_ALIASES[alias] = probe.key
          /\ {probe.key, alias} \cap DOMAIN probe.env_vars.d = {}
          /\ probe' = [probe EXCEPT
                          !.done = "pair", !.alias = alias, !.v = v,
                          !.res_alias = ProbeCall(Dict(DictPut(probe.env_vars.d, alias, v))),
                          !.res_key = ProbeCall(Dict(DictPut(probe.env_vars.d, probe.key, v)))]
    /\ UNCHANGED <<pc, environ, conf, bak, CONFIG, stdout_isatty, call, ncalls, threads>>

NextVal ==
    \/ CallLoadConfigVal
    \/ \E v \in {<<>>, s_False, s_yes, s_abc} : CallAliasPair(v)

SpecVal == InitVal /\ [][NextVal]_vars

-----------------------------------------------------------------------------
(* Properties of load_config_val, checked under SpecVal *)

\* source x (an Optional[dict]) holds a non-empty value under name
Holds(x, name) == ~x.none /\ name \in DOMAIN x.d /\ x.d[name] # <<>>

\* the names load_config_val probes for probe.key, in probing order
ProbedNames == <<probe.key>> \o BaseDecl(probe.key).aliases

\* neither source has an entry under an alias of probe.key
CanonicalOnly ==
    \A j \in 1..Len(BaseDecl(probe.key).aliases) :
        BaseDecl(probe.key).aliases[j] \notin
            DOMAIN probe.env_vars.d \cup DOMAIN probe.config_file_vars.d

\* C1: for every declared base key, with the sources holding entries under
\* the canonical name only, load_config_val yields the coerced file value
\* when only the file holds a non-empty value, the coerced environment value
\* when both hold one, and the default (static, or computed from the config
\* so far) when neither holds one.
C1_Precedence ==
    (probe.done = "val" /\ CanonicalOnly) =>
        LET d      == BaseDecl(probe.key)
            inEnv  == Holds(probe.env_vars, probe.key)
            inFile == Holds(probe.config_file_vars, probe.key)
        IN /\ (~inEnv /\ inFile) =>
                 probe.res = Coerce(d.type, probe.config_file_vars.d[probe.key])
           /\ (inEnv /\ inFile) =>
                 probe.res = Coerce(d.type, probe.env_vars.d[probe.key])
           /\ (~inEnv /\ ~inFile) =>
                 probe.res = DefaultOf(d.default, probe.config)

\* C2: for a base key with aliases, a non-empty environment value under any
\* probed name (canonical first, then alias) wins over whatever the config
\* file holds under any probed name.
C2_EnvironmentWinsUnderAnyName ==
    (/\ probe.done = "val"
     /\ BaseDecl(probe.key).aliases # <<>>
     /\ \E i \in 1..Len(ProbedNames) : Holds(probe.env_vars, ProbedNames[i])) =>
        LET first == CHOOSE i \in 1..Len(ProbedNames) :
                        /\ Holds(probe.env_vars, ProbedNames[i])
                        /\ \A j \in 1..(i - 1) : ~Holds(probe.env_vars, ProbedNames[j])
        IN probe.res = Coerce(BaseDecl(probe.key).type, probe.env_vars.d[ProbedNames[first]])

\* C3: alias equivalence: for every declared alias A of a key K, every raw
\* value v and any config file contents, resolving K under an environment
\* with the entry A = v gives the same result as under the entry K = v.
C3_AliasEquivalence ==
    probe.done = "pair" => probe.res_alias = probe.res_key

\* source x with the entries that hold the empty string left out
WithoutEmpty(x) ==
    IF x.none THEN x
    ELSE Dict([name \in {n \in DOMAIN x.d : x.d[n] # <<>>} |-> x.d[name]])

\* C12: a source holding the empty string for a name does not count as
\* defining it: load_config_val gives what it gives when the entries holding
\* the empty string are taken out of the environment and of the file
\* mapping, whether or not there is a file mapping (the environment holds
\* PATH, so it is non-empty either way).
C12_EmptyStringIsNoEntry ==
    (probe.done = "val" /\ "PATH" \in DOMAIN probe.env_vars.d) =>
        probe.res = load_config_val(probe.key, BaseDecl(probe.key).default,
                                    BaseDecl(probe.key).type, BaseDecl(probe.key).aliases,
                                    probe.config, WithoutEmpty(probe.env_vars),
                                    WithoutEmpty(probe.config_file_vars))

-----------------------------------------------------------------------------
(* Properties of write_config_file and load_all_config, checked under Spec *)

\* the last call was write_config_file({K: V}) for one declared base key K
WroteOneKey ==
    /\ call.op = "write"
    /\ Len(call.config) = 1
    /\ call.config[1].key \in USER_CONFIG

\* the environment holds a non-empty value under K or an alias of K
EnvNames(key) ==
    \E i \in 1..Len(<<key>> \o BaseDecl(key).aliases) :
        Holds(Dict(environ), (<<key>> \o BaseDecl(key).aliases)[i])

\* a DERIVED_CONFIG_DEFAULTS entry recomputes key
Recomputed(key) ==
    \E i \in 1..Len(DERIVED_CONFIG_DEFAULTS) : DERIVED_CONFIG_DEFAULTS[i].key = key

\* resolved[K] of a full pass over the disk as it is equals the coerced V,
\* and the call returned exactly {K: coerced V}
RoundTrips ==
    LET K == call.config[1].key
        V == Coerce(BaseDecl(K).type, call.config[1].val)
    IN \E pass \in {load_all_config(environ, conf)} :
          /\ V.ok
          /\ pass.ok
          /\ pass.ret[K] = V.v
          /\ call.outcome = "returned"
          /\ call.ret = (K :> V.v)

\* C4 as stated: after write_config_file({K: V}) for a declared base key K
\* and a raw value V valid for K's type (the type's coercion accepts V and
\* the call's validation passed), a full resolution pass yields resolved[K]
\* equal to the coerced V, and the call returns that value for K.
C4_RoundTrip_AsStated ==
    (/\ WroteOneKey
     /\ Coerce(BaseDecl(call.config[1].key).type, call.config[1].val).ok
     /\ call.validated) => RoundTrips

\* the file holds key in no section other than the one that declares it
InDeclaredSectionOnly(file, key) ==
    \A i \in 1..Len(file.body) :
        HasOpt(file.body[i].opts, key) => file.body[i].section = find_section(key)

\* the part of C4 that holds: the round trip, when the call returned with
\* the validation passed, the environment holds no non-empty value under K
\* or an alias of K, no derived declaration recomputes K, and the file held
\* K in no section other than K's own.
C4_RoundTrip ==
    (/\ WroteOneKey
     /\ call.outcome = "returned"
     /\ call.validated
     /\ ~EnvNames(call.config[1].key)
     /\ ~Recomputed(call.config[1].key)
     /\ InDeclaredSectionOnly(call.pre_conf, call.config[1].key)) => RoundTrips

\* C4, reached: a write of TIMEOUT that replaced the value the file held before, with
\* no TIMEOUT in the environment
C4_Witness ==
    /\ WroteOneKey
    /\ call.validated
    /\ call.config[1].key = "TIMEOUT"
    /\ ~EnvNames("TIMEOUT")
    /\ call.pre_conf = UserFile
    /\ call.ret = [TIMEOUT |-> IntV(45)]

\* C5: when the config file existed before the call and the validation pass
\* after writing raised, then on return the config file is identical to its
\* content before the call and the result is the empty mapping.
C5_RollbackRestoresFile ==
    (/\ call.op = "write"
     /\ call.pre_conf.exists
     /\ call.outcome = "returned"
     /\ ~call.validated) =>
        /\ conf = call.pre_conf
        /\ call.ret = EmptyDict

\* C5, reached: a rejected write over a file that held comments and a TIMEOUT line
C5_Witness ==
    /\ call.op = "write"
    /\ call.pre_conf = UserFile
    /\ call.outcome = "returned"
    /\ ~call.validated
    /\ call.exc = "ValueError"
    /\ call.config = <<Item("TIMEOUT", s_abc)>>

\* C6: whenever write_config_file returns, a full resolution pass over the
\* config file now on disk succeeds under the current environment, provided
\* a pass over the file succeeded before the call.
C6_FileResolvesAfterWrite ==
    (/\ call.op = "write"
     /\ call.outcome = "returned"
     /\ call.pre_ok) => load_all_config(environ, conf).ok

\* C6, reached: a returned write whose validation had failed, from a state that
\* resolved before the call
C6_Witness ==
    /\ call.op = "write"
    /\ call.outcome = "returned"
    /\ call.pre_ok
    /\ ~call.validated
    /\ call.exc = "KeyError"

\* C7: a write_config_file call that fails (validation failure after
\* writing, or an assignment to an undeclared key) leaves the disk as it
\* was before the call: the config file absent if it was absent and
\* unchanged otherwise, and no .bak file.
C7_FailedWriteLeavesDiskUntouched ==
    (/\ call.op = "write"
     /\ (call.outcome = "raised" \/ ~call.validated)) =>
        /\ conf = call.pre_conf
        /\ ~bak.exists

\* C8: after write_config_file validated successfully and returned the
\* resolved values, the .bak file no longer exists.
C8_BackupRemovedOnSuccess ==
    (call.op = "write" /\ call.validated) => ~bak.exists

\* C9: when a resolution pass raises, it yields no snapshot, the mapping
\* passed into the failing load_config call is left as it was, and the
\* module-level CONFIG keeps the value it had before the pass.
C9_FailedPassPublishesNothing ==
    /\ (call.op \in {"load", "import"} /\ call.outcome = "raised") =>
          /\ call.ret = EmptyDict
          /\ call.arg_after = call.arg
          /\ CONFIG = call.pre_CONFIG
    /\ (call.op = "write" /\ call.outcome = "returned" /\ ~call.validated) =>
          CONFIG = call.pre_CONFIG

\* C9, reached: a pass that raised after the import, in a section that was given the
\* keys of the sections before it
C9_Witness ==
    /\ call.op = "load"
    /\ call.outcome = "raised"
    /\ call.exc = "ValueError"
    /\ "IS_TTY" \in DOMAIN call.arg
    /\ CONFIG # EmptyDict

\* C10: after write_config_file validated successfully, the module-level
\* CONFIG is the newly resolved snapshot: reading a written key from it
\* gives the value the call returned.
C10_ConfigReplacedAfterWrite ==
    (call.op = "write" /\ call.validated) =>
        \A k \in DOMAIN call.ret : CONFIG[k] = call.ret[k]


-----------------------------------------------------------------------------
(* Writes on config files as users leave them: the import, then calls of   *)
(* write_config_file                                                        *)

s_space == <<" ">>
s_30    == <<"3","0">>

\* ArchiveBox.conf files: without a SECRET_KEY, with an empty one, with the
\* placeholder of the settings template, and with TIMEOUT typed into a
\* section other than the one that declares it
NoSecretFile ==
    Text("", <<[section |-> "GENERAL_CONFIG", opts |-> <<[key |-> "TIMEOUT", val |-> s_30]>>]>>)

EmptySecretFile ==
    Text("", <<[section |-> "SERVER_CONFIG", opts |-> <<[key |-> "SECRET_KEY", val |-> <<>>]>>]>>)

SentinelFile ==
    Text("", <<[section |-> "SERVER_CONFIG",
                opts |-> <<[key |-> "SECRET_KEY", val |-> s_not_a_valid_secret]>>]>>)

MisplacedFile ==
    Text("", <<[section |-> "GENERAL_CONFIG", opts |-> <<[key |-> "ONLY_NEW", val |-> s_True]>>],
               [section |-> "SERVER_CONFIG", opts |-> <<[key |-> "TIMEOUT", val |-> s_30],
                                                        [key |-> "SECRET_KEY", val |-> s_s3cr3t]>>]>>)

WriteFiles == {Absent, NoSecretFile, EmptySecretFile, SentinelFile, UserFile, MisplacedFile}

WriteArgsSecret == {
    <<Item("TIMEOUT", s_45)>>,
    <<Item("TIMEOUT", s_abc)>>,
    <<Item("ONLY_NEW", s_no)>>,
    <<Item("SECRET_KEY", s_space)>>,
    <<Item("SECRET_KEY", s_s3cr3t)>>,
    <<Item("TIMEOUT", s_45), Item("ONLY_NEW", s_no)>>}

InitWrite ==
    /\ pc = "boot"
    /\ environ = [PATH |-> s_bin]
    /\ conf \in WriteFiles
    /\ bak = Absent
    /\ CONFIG = EmptyDict
    /\ stdout_isatty \in BOOLEAN
    /\ call = NoCall
    /\ ncalls = 0
    /\ probe = NoProbe
    /\ threads = NoThreads

NextWrite ==
    \/ Import
    \/ \E config \in WriteArgsSecret, k \in RandomSecrets : WriteConfigFile(config, k)

SpecWrite == InitWrite /\ [][NextWrite]_vars

\* the value ConfigParser reads for SECRET_KEY in [SERVER_CONFIG] of file,
\* None when the file, the section or the option is missing
SecretIn(file) ==
    IF /\ file.exists
       /\ HasSection(ConfigParser_read(file), "SERVER_CONFIG")
       /\ HasOpt(SectionOpts(ConfigParser_read(file), "SERVER_CONFIG"), "SECRET_KEY")
    THEN StrV(OptVal(SectionOpts(ConfigParser_read(file), "SERVER_CONFIG"), "SECRET_KEY"))
    ELSE NoneV

\* no SECRET_KEY, an empty one, or one containing the placeholder
LacksSecret(file) ==
    \/ ~Truthy(SecretIn(file))
    \/ str_contains(SecretIn(file).s, s_not_a_valid_secret)

\* C11: after a write_config_file call whose validation passed, made on a
\* file that had no SECRET_KEY, an empty one, or one containing 'not a valid
\* secret', SERVER_CONFIG of the file holds a SECRET_KEY that is non-empty
\* and does not contain 'not a valid secret'.
C11_SecretInjection ==
    (/\ call.op = "write"
     /\ call.validated
     /\ LacksSecret(call.pre_conf)) => ~LacksSecret(conf)


\* every section occurs once in the file, and every key once across all
\* its sections
NoDuplicates(file) ==
    /\ \A i, j \in 1..Len(file.body) : file.body[i].section = file.body[j].section => i = j
    /\ \A i, j \in 1..Len(file.body) :
          \A a \in 1..Len(file.body[i].opts), b \in 1..Len(file.body[j].opts) :
              file.body[i].opts[a].key = file.body[j].opts[b].key => (i = j /\ a = b)

\* C19: after two calls of write_config_file in a row with the same
\* assignments, both with the validation passed, the config file is the
\* file the first call left, and it holds every section once and every key
\* once across all sections.
C19_WriteIdempotent ==
    (/\ call.op = "write"
     /\ call.validated
     /\ call.before.op = "write"
     /\ call.before.validated
     /\ call.before.config = call.config) =>
        /\ conf = call.pre_conf
        /\ NoDuplicates(conf)

-----------------------------------------------------------------------------
(* Coercion: one load_config_val call for a declared key whose raw value    *)
(* is found in the environment or in the file mapping                        *)

s_sp_5     == <<" ","5">>
s_sp_true  == <<" ","t","r","u","e">>
s_json_str == <<"\"","a","b","c","\"">>

\* raw values: spellings of the boolean words, digits and near-digits, plain
\* strings, JSON texts
RawSamples == {
    s_true, s_1, s_0, s_5, s_45, s_abc, s_sp_5, s_sp_true, s_json_a, s_json_str,
    <<"T","R","U","E">>, <<"y","E","s">>, <<"N","o">>, <<"F","A","L","S","E">>,
    <<"t","r","u","e"," ">>, <<"o","n">>, <<"2">>,
    <<"0","0","7">>, <<"4",".","2">>, <<"-","1">>,
    <<" ","a","b","c"," ">>,
    <<"[","\"","a","\"",","," ","\"","b","\"","]">>, <<"[","]">>,
    <<"[","1",",","2","]">>, <<"[">>, <<"n","u","l","l">>}

\* the raw value sits in os.environ as the process was given it, or in the
\* file mapping as ConfigParser read it (stripped)
InitCoerce ==
    /\ pc = "val"
    /\ environ = EmptyDict
    /\ conf = Absent
    /\ bak = Absent
    /\ CONFIG = EmptyDict
    /\ stdout_isatty \in BOOLEAN
    /\ call = NoCall
    /\ ncalls = 0
    /\ threads = NoThreads
    /\ \E i \in 1..Len(BaseDecls), raw \in RawSamples, config \in ConfigsSoFar :
          \/ probe = [NoProbe EXCEPT !.key = BaseDecls[i].key, !.config = config,
                                     !.env_vars = Dict((BaseDecls[i].key :> raw) @@ [PATH |-> s_bin]),
                                     !.config_file_vars = NoDict]
          \/ probe = [NoProbe EXCEPT !.key = BaseDecls[i].key, !.config = config,
                                     !.env_vars = Dict([PATH |-> s_bin]),
                                     !.config_file_vars = Dict(BaseDecls[i].key :> str_strip(raw))]

NextCoerce == CallLoadConfigVal

SpecCoerce == InitCoerce /\ [][NextCoerce]_vars

\* the raw value the probing loop finds for probe.key
Found ==
    IF Holds(probe.env_vars, probe.key) THEN probe.env_vars.d[probe.key]
    ELSE probe.config_file_vars.d[probe.key]

\* one call was made and it found a non-empty raw value under probe.key
Resolved ==
    /\ probe.done = "val"
    /\ Holds(probe.env_vars, probe.key) \/ Holds(probe.config_file_vars, probe.key)

\* s spells word, in any mix of upper and lower case
SpellsNoCase(s, word) ==
    /\ Len(s) = Len(word)
    /\ \A i \in 1..Len(s) :
          \/ s[i] = word[i]
          \/ \E c \in 1..26 : LowerChars[c] = word[i] /\ UpperChars[c] = s[i]

\* the number a string of decimal digits denotes, read from the left
RECURSIVE DecimalValue(_, _)
DecimalValue(s, acc) ==
    IF s = <<>> THEN acc
    ELSE DecimalValue(Tail(s), 10 * acc + (CHOOSE n \in 0..9 : DigitChars[n + 1] = Head(s)))

OnlyDigits(s) == s # <<>> /\ \A i \in 1..Len(s) : \E n \in 1..10 : DigitChars[n] = s[i]

\* C13: for a bool-typed key the found raw value resolves to true exactly
\* when it spells true, yes or 1 in any case, to false exactly when it
\* spells false, no or 0, and raises otherwise; for an int-typed key it
\* resolves to the number its digits denote when it consists of decimal
\* digits only, and raises otherwise.
C13_BoolIntCoercion ==
    Resolved =>
        LET yes == \E w \in {s_true, s_yes, s_1} : SpellsNoCase(Found, w)
            no  == \E w \in {s_false, s_no, s_0} : SpellsNoCase(Found, w)
        IN /\ BaseDecl(probe.key).type = "bool" =>
                 /\ yes => probe.res = Ok(BoolV(TRUE))
                 /\ no => probe.res = Ok(BoolV(FALSE))
                 /\ (~yes /\ ~no) => ~probe.res.ok
           /\ BaseDecl(probe.key).type = "int" =>
                 /\ OnlyDigits(Found) => probe.res = Ok(IntV(DecimalValue(Found, 0)))
                 /\ ~OnlyDigits(Found) => ~probe.res.ok

\* C13, reached: the int-typed TIMEOUT found as ' 5' in the environment, and
\* the call raised
C13_Witness ==
    /\ Resolved
    /\ probe.key = "TIMEOUT"
    /\ Found = s_sp_5
    /\ probe.res = Raise("ValueError")

\* s spells one of true, false, yes, no, 1, 0 in any case
BooleanWord(s) ==
    \E w \in {s_true, s_false, s_yes, s_no, s_1, s_0} : SpellsNoCase(s, w)

\* C14: a str-typed key never resolves from a found raw value to one of the
\* words true, false, yes, no, 1, 0 (in any case): a raw value spelling one
\* of them is rejected, and an accepted raw value is returned trimmed.
C14_StringNeverBooleanWord ==
    (Resolved /\ BaseDecl(probe.key).type = "str") =>
        /\ BooleanWord(Found) => ~probe.res.ok
        /\ probe.res.ok =>
              /\ probe.res.v = StrV(str_strip(Found))
              /\ ~BooleanWord(probe.res.v.s)

\* C15: a list-typed key resolves from a found raw value only to a sequence
\* of strings: a raw value that is not a JSON array of strings, malformed
\* JSON included, raises.
C15_ListOnlyFromJsonArray ==
    (Resolved /\ BaseDecl(probe.key).type = "list" /\ probe.res.ok) =>
        /\ probe.res.v.t = "list"
        /\ \A i \in 1..Len(probe.res.v.l) : probe.res.v.l[i].t = "str"


-----------------------------------------------------------------------------
(* Resolution passes: the import, then calls of load_all_config and        *)
(* os.environ['TIMEOUT'] = '5', on config files that switch archive        *)
(* methods off                                                              *)

ToggleKeys == <<"SAVE_TITLE", "SAVE_FAVICON", "SAVE_ARCHIVE_DOT_ORG",
                "SAVE_READABILITY", "SAVE_SINGLEFILE">>

\* the lines KEY = False for the keys of off, in the order of ToggleKeys
RECURSIVE OffOpts(_, _)
OffOpts(off, i) ==
    IF i > Len(ToggleKeys) THEN <<>>
    ELSE (IF ToggleKeys[i] \in off THEN <<[key |-> ToggleKeys[i], val |-> s_False]>> ELSE <<>>)
         \o OffOpts(off, i + 1)

ToggleFile(off) ==
    Text("", <<[section |-> "ARCHIVE_METHOD_TOGGLES", opts |-> OffOpts(off, 1)]>>)

\* a user agent template naming a key that the derived declarations
\* resolve: 'x{MERCURY_VERSION}'
s_xMERCURY_VERSION ==
    <<"x","{","M","E","R","C","U","R","Y","_","V","E","R","S","I","O","N","}">>

TemplateFile ==
    Text("", <<[section |-> "ARCHIVE_METHOD_OPTIONS",
                opts |-> <<[key |-> "CURL_USER_AGENT", val |-> s_xMERCURY_VERSION]>>]>>)

PassFiles ==
    {Absent, TemplateFile}
    \cup {ToggleFile(off) : off \in SUBSET {ToggleKeys[i] : i \in 1..Len(ToggleKeys)}}

\* os.environ when the process starts: empty, or holding PATH
PassEnvirons == {EmptyDict, [PATH |-> s_bin]}

InitPass ==
    /\ pc = "boot"
    /\ environ \in PassEnvirons
    /\ conf \in PassFiles
    /\ bak = Absent
    /\ CONFIG = EmptyDict
    /\ stdout_isatty \in BOOLEAN
    /\ call = NoCall
    /\ ncalls = 0
    /\ probe = NoProbe
    /\ threads = NoThreads

NextPass ==
    \/ Import
    \/ LoadAllConfig
    \/ Putenv("TIMEOUT", s_5)

SpecPass == InitPass /\ [][NextPass]_vars

\* the last call was a resolution pass that returned its snapshot
PassReturned == call.op \in {"import", "load"} /\ call.outcome = "returned"

\* what the i-th derived function has to observe: for a key recomputed by an
\* earlier derived declaration the value the pass returned for it, for every
\* other key the value the base sections resolved
Observed(i) ==
    LET earlier == {DERIVED_CONFIG_DEFAULTS[j].key : j \in 1..(i - 1)}
    IN [k \in DOMAIN call.arg \cup earlier |->
           IF k \in earlier THEN call.ret[k] ELSE call.arg[k]]

\* C16: in a pass of load_all_config that returns, the value of every
\* derived key is its function applied to the derived values of the keys
\* that earlier derived declarations recomputed and to the base values of
\* the other keys: CURL_VERSION and SAVE_FAVICON see the derived USE_CURL,
\* SAVE_SINGLEFILE the derived USE_CHROME and USE_NODE.
C16_DerivedOrdering ==
    PassReturned =>
        \A i \in 1..Len(DERIVED_CONFIG_DEFAULTS) :
            Ok(call.ret[DERIVED_CONFIG_DEFAULTS[i].key])
                = LambdaBody(DERIVED_CONFIG_DEFAULTS[i].default.fn, Observed(i))

\* C16, reached: the base USE_CURL and USE_NODE are true and their derived
\* values false, and CURL_VERSION and SAVE_MERCURY followed the derived ones
C16_Witness ==
    /\ PassReturned
    /\ call.arg["USE_CURL"] = BoolV(TRUE)
    /\ call.ret["USE_CURL"] = BoolV(FALSE)
    /\ call.ret["CURL_VERSION"] = NoneV
    /\ call.arg["USE_NODE"] = BoolV(TRUE)
    /\ call.ret["USE_NODE"] = BoolV(FALSE)
    /\ call.arg["SAVE_MERCURY"] = BoolV(TRUE)
    /\ call.ret["SAVE_MERCURY"] = BoolV(FALSE)

\* every declaration in evaluation order: the base sections, then the
\* derived declarations
AllDecls == BaseDecls \o DERIVED_CONFIG_DEFAULTS

\* C17: no forward references: the keys a default function names are
\* declared before it in evaluation order, and no resolution pass raises
\* KeyError for a key that is not resolved yet, whatever the values resolved
\* so far (every name a user agent template holds here is a declared key).
C17_NoForwardReferences ==
    /\ \A i \in 1..Len(AllDecls) :
          AllDecls[i].default.callable =>
              LambdaReads(AllDecls[i].default.fn) \subseteq {AllDecls[j].key : j \in 1..(i - 1)}
    /\ call.op \in {"import", "load"} => call.exc # "KeyError"

\* C18: a pass under an empty os.environ and without a config file returns
\* a snapshot with TIMEOUT = 60 and USE_WGET = True; a pass made right after
\* os.environ['TIMEOUT'] = '5' returns the snapshot of the import with
\* TIMEOUT = 5 and every other key as it was.
C18_EndToEnd ==
    /\ (/\ call.op \in {"import", "load"}
        /\ call.pre_environ = EmptyDict
        /\ ~call.pre_conf.exists) =>
          /\ call.outcome = "returned"
          /\ call.ret["TIMEOUT"] = IntV(60)
          /\ call.ret["USE_WGET"] = BoolV(TRUE)
    /\ (call.op = "load" /\ call.before.op = "putenv") =>
          /\ call.outcome = "returned"
          /\ call.ret = ("TIMEOUT" :> IntV(5)) @@ CONFIG


-----------------------------------------------------------------------------
(* Threads: after the import, two threads of the process each call         *)
(* write_config_file once on the same collection.  The function takes no   *)
(* lock, so a thread can be preempted between any two of its file          *)
(* operations: each action below is one of them.                            *)

ConcFiles == {Absent, UserFile}

ConcArgs == {
    <<Item("TIMEOUT", s_45)>>,
    <<Item("TIMEOUT", s_abc)>>,
    <<Item("ONLY_NEW", s_no)>>}

InitConc ==
    /\ pc = "boot"
    /\ environ = [PATH |-> s_bin]
    /\ conf \in ConcFiles
    /\ bak = Absent
    /\ CONFIG = EmptyDict
    /\ stdout_isatty = FALSE
    /\ call = NoCall
    /\ ncalls = 0
    /\ probe = NoProbe
    /\ threads = NoThreads

\* thread t moves to `at` with the fields of change replaced
Move(t, change) == threads' = (t :> (change @@ threads[t])) @@ threads

\* the call and `if not config_path.exists(): atomic_write(config_path, CONFIG_HEADER)`
Begin(t, config) ==
    /\ pc = "ready"
    /\ threads[t].at = "idle"
    /\ conf' = IF ~conf.exists THEN HeaderFile ELSE conf
    /\ Move(t, [at |-> "read", config |-> config])
    /\ UNCHANGED <<pc, environ, bak, CONFIG, stdout_isatty, call, ncalls, probe>>

\* config_file.read(config_path)
ReadFile(t) ==
    /\ threads[t].at = "read"
    /\ Move(t, [at |-> "backup", config_file |-> ConfigParser_read(conf)])
    /\ UNCHANGED <<pc, environ, conf, bak, CONFIG, stdout_isatty, call, ncalls, probe>>

\* a backup made from the parsed file, not from the text of the file
WriteBackup_parsed(t) ==
    /\ threads[t].at = "backup"
    /\ bak' = ConfigParser_write(threads[t].config_file)
    /\ Move(t, [at |-> "write"])
    /\ UNCHANGED <<pc, environ, conf, CONFIG, stdout_isatty, call, ncalls, probe>>

\* atomic_write(f'{config_path}.bak', old.read())
WriteBackup(t) ==
    /\ threads[t].at = "backup"
    /\ bak' = conf
    /\ Move(t, [at |-> "write"])
    /\ UNCHANGED <<pc, environ, conf, CONFIG, stdout_isatty, call, ncalls, probe>>

\* the assignment loop and the SECRET_KEY check on the parsed file, then
\* config_file.write(new) over the config file
WriteFile(t, random_secret_key) ==
    /\ threads[t].at = "write"
    /\ \E assigned \in {AssignLoop(threads[t].config_file, threads[t].config, 1)} :
          /\ conf' = IF assigned.ok
                     THEN ConfigParser_write(EnsureSecret(assigned.config_file,
                                                          random_secret_key))
                     ELSE conf
          /\ Move(t, [at |-> IF assigned.ok THEN "validate" ELSE "raised",
                      exc |-> IF assigned.ok THEN "" ELSE "IndexError",
                      random_secret_key |-> random_secret_key])
    /\ UNCHANGED <<pc, environ, bak, CONFIG, stdout_isatty, call, ncalls, probe>>

\* the try block: load_all_config() on the file as it is now, and the return
ValidateFile(t) ==
    /\ threads[t].at = "validate"
    /\ \E pass \in {load_all_config(environ, conf)} :
          Move(t, IF pass.ok
                  THEN [at |-> "returned",
                        ret |-> ReturnedValues(threads[t].config, 1, pass.ret, EmptyDict)]
                  ELSE [at |-> "restore", exc |-> pass.exc])
    /\ UNCHANGED <<pc, environ, conf, bak, CONFIG, stdout_isatty, call, ncalls, probe>>

\* the except block: the backup written over the config file; open() raises
\* FileNotFoundError when the backup is gone
RestoreBackup(t) ==
    /\ threads[t].at = "restore"
    /\ conf' = IF bak.exists THEN bak ELSE conf
    /\ Move(t, IF bak.exists THEN [at |-> "cleanup"]
               ELSE [at |-> "raised", exc |-> "FileNotFoundError"])
    /\ UNCHANGED <<pc, environ, bak, CONFIG, stdout_isatty, call, ncalls, probe>>

\* os.remove of the backup if it exists, and `return {}`
RemoveBackup(t) ==
    /\ threads[t].at = "cleanup"
    /\ bak' = Absent
    /\ Move(t, [at |-> "returned"])
    /\ UNCHANGED <<pc, environ, conf, CONFIG, stdout_isatty, call, ncalls, probe>>

NextConc ==
    \/ Import /\ UNCHANGED threads
    \/ \E t \in Threads :
          \/ \E config \in ConcArgs : Begin(t, config)
          \/ ReadFile(t)
          \/ WriteBackup(t)
          \/ \E k \in RandomSecrets : WriteFile(t, k)
          \/ ValidateFile(t)
          \/ RestoreBackup(t)
          \/ RemoveBackup(t)

SpecConc == InitConc /\ [][NextConc]_vars

\* both calls are over
BothDone == \A t \in Threads : threads[t].at \in {"returned", "raised"}

\* the files on disk after first's call and then second's call, each run
\* from start to end on its own, from the file the process started with
SerialOutcome(first, second) ==
    LET After(w) == <<w.conf, w.bak>>
        Then(w) == After(write_config_file(threads[second].config, environ, w.conf,
                                           threads[second].random_secret_key))
    IN Then(write_config_file(threads[first].config, environ, call.pre_conf,
                              threads[first].random_secret_key))

\* C20: calls of write_config_file on one config file exclude each other:
\* when two threads have each made a call, the config file and the backup
\* are what the two calls leave when run one after the other, in one of the
\* two orders.
C20_WritesSerialised ==
    BothDone => <<conf, bak>> \in {SerialOutcome("t1", "t2"), SerialOutcome("t2", "t1")}

-----------------------------------------------------------------------------
(* A pass next to a write: after the import, one thread calls              *)
(* write_config_file once and another calls load_all_config once.  The     *)
(* pass is a loop of load_config calls, one for each section and one for   *)
(* the derived declarations; load_all_config hands none of them a          *)
(* config_file_vars, so each call reads the config file itself (line 496), *)
(* and the writer can run between any two of them.                          *)

Writer == "t1"
Loader == "loader"

\* a thread that has not called load_all_config yet: i is the section the
\* loop is at, config the mapping built so far, reads the files that the
\* load_config calls of the pass have read
NoPass == [at |-> "idle", i |-> 1, config |-> EmptyDict, reads |-> <<>>,
           exc |-> "", ret |-> EmptyDict]

InitReload ==
    /\ pc = "boot"
    /\ environ = [PATH |-> s_bin]
    /\ conf \in ConcFiles
    /\ bak = Absent
    /\ CONFIG = EmptyDict
    /\ stdout_isatty = FALSE
    /\ call = NoCall
    /\ ncalls = 0
    /\ probe = NoProbe
    /\ threads = (Loader :> NoPass) @@ NoThreads

\* the call load_all_config(): CONFIG = {}
BeginPass ==
    /\ pc = "ready"
    /\ threads[Loader].at = "idle"
    /\ Move(Loader, [at |-> "section"])
    /\ UNCHANGED <<pc, environ, conf, bak, CONFIG, stdout_isatty, call, ncalls, probe>>

\* one load_config call of the pass: the file is read, then the section's
\* keys are resolved against what was read; after the last section the
\* derived declarations, whose result the pass returns
LoadSection ==
    /\ threads[Loader].at = "section"
    /\ LET p == threads[Loader]
           last == p.i > Len(CONFIG_DEFAULTS)
           defaults == IF last THEN DERIVED_CONFIG_DEFAULTS ELSE CONFIG_DEFAULTS[p.i].opts
           reads == Append(p.reads, conf)
       IN \E r \in {load_config(defaults, p.config, Dict(environ), load_config_file(conf))} :
             Move(Loader, IF ~r.ok THEN [at |-> "raised", exc |-> r.exc, reads |-> reads]
                          ELSE IF last THEN [at |-> "returned", ret |-> r.ret, reads |-> reads]
                          ELSE [i |-> p.i + 1, config |-> r.ret, reads |-> reads])
    /\ UNCHANGED <<pc, environ, conf, bak, CONFIG, stdout_isatty, call, ncalls, probe>>

NextReload ==
    \/ Import /\ UNCHANGED threads
    \/ \E config \in ConcArgs : Begin(Writer, config)
    \/ ReadFile(Writer)
    \/ WriteBackup(Writer)
    \/ \E k \in RandomSecrets : WriteFile(Writer, k)
    \/ ValidateFile(Writer)
    \/ RestoreBackup(Writer)
    \/ RemoveBackup(Writer)
    \/ BeginPass
    \/ LoadSection

SpecReload == InitReload /\ [][NextReload]_vars

\* the files that the load_config calls of the pass have read
FilesRead == {threads[Loader].reads[k] : k \in 1..Len(threads[Loader].reads)}

\* C21: a pass resolves every key against the same file contents, also when
\* the file is rewritten while the pass runs: the snapshot a pass returns is
\* the snapshot of one of the files it read.
C21_OneFilePerPass ==
    threads[Loader].at = "returned" =>
        \E file \in FilesRead : threads[Loader].ret = load_all_config(environ, file).ret

-----------------------------------------------------------------------------
(* plugantic/base_configset.py: ArchiveBoxBaseConfig, the pydantic-settings *)
(* base class of the config sets.  A config set is built from the sources   *)
(* that settings_customise_sources returns.  pydantic-settings merges the   *)
(* sources in the order of the returned tuple and a value an earlier source *)
(* gives is kept over the value of a later one: the first source of the     *)
(* tuple has the highest priority.  The fields of the model are str fields  *)
(* without alias; ArchiveBox.conf is in TOML format here (the conversion of *)
(* an INI file by ini_to_toml is left out), kept in conf as its top-level   *)
(* keys and the keys of its [DEPENDENCY_CONFIG] table.                      *)

s_wget  == <<"w","g","e","t">>
s_wget2 == <<"w","g","e","t","2">>
s_opt   == <<"/","o","p","t">>
s_usr   == <<"/","u","s","r">>

\* settings_cls.model_fields with their schema defaults
model_fields == [WGET_BINARY |-> s_wget, CURL_BINARY |-> s_curl]

\* a TOML ArchiveBox.conf
Toml(top, table) == [exists |-> TRUE, top |-> top, DEPENDENCY_CONFIG |-> table]

\* the mapping d without the keys that are not in keep
Restrict(d, keep) == [k \in (DOMAIN d) \cap keep |-> d[k]]

\* FlatTomlConfigSettingsSource: the tables named in ConfigSectionNames are
\* flattened into one namespace in file order (TOML puts the top-level keys
\* before the tables), then only the keys of model_fields are kept
FlatTomlConfigSettingsSource(toml_file) ==
    Restrict(toml_file.DEPENDENCY_CONFIG @@ toml_file.top, DOMAIN model_fields)

\* the sources and their order
settings_customise_sources(config_file) ==
    IF ~config_file.exists THEN <<"init_settings", "env_settings">>
    ELSE <<"init_settings", "toml_settings", "env_settings">>

\* what a source gives: the keyword arguments of __init__, the TOML file, or
\* the environment variables named as a field (case_sensitive=True)
SourceState(source, init_kwargs, config_file, env) ==
    IF source = "init_settings" THEN init_kwargs
    ELSE IF source = "toml_settings" THEN FlatTomlConfigSettingsSource(config_file)
    ELSE Restrict(env, DOMAIN model_fields)

\* BaseSettings._settings_build_values: for each source in order,
\* state = deep_update(source_state, state)
RECURSIVE settings_build_values(_, _, _, _, _, _)
settings_build_values(sources, i, state, init_kwargs, config_file, env) ==
    IF i > Len(sources) THEN state
    ELSE settings_build_values(sources, i + 1,
                               state @@ SourceState(sources[i], init_kwargs, config_file, env),
                               init_kwargs, config_file, env)

\* ArchiveBoxBaseConfig(**init_kwargs): the built values over the schema
\* defaults
ArchiveBoxBaseConfig(init_kwargs, config_file, env) ==
    settings_build_values(settings_customise_sources(config_file), 1, EmptyDict,
                          init_kwargs, config_file, env) @@ model_fields

\* the values a source can hold for the fields, and a key that is no field
SourceValues(value) ==
    {Restrict([WGET_BINARY |-> value, CURL_BINARY |-> value, FOO |-> value], keys) :
        keys \in SUBSET {"WGET_BINARY", "CURL_BINARY", "FOO"}}

TomlFiles == {Absent} \cup {Toml(top, table) : top \in SourceValues(s_usr),
                                                table \in SourceValues(s_opt)}

SettingsEnvirons == {[PATH |-> s_bin] @@ e : e \in SourceValues(s_wget2)}

InitSettings ==
    /\ pc = "ready"
    /\ environ \in SettingsEnvirons
    /\ conf \in TomlFiles
    /\ bak = Absent
    /\ CONFIG = EmptyDict
    /\ stdout_isatty = FALSE
    /\ call = NoCall
    /\ ncalls = 0
    /\ probe = NoProbe
    /\ threads = NoThreads

\* c = WgetConfig(), or c.__init__() to reload: probe.config is the loaded
\* config set
InitConfigSet ==
    /\ probe.done = "no"
    /\ probe' = [NoProbe EXCEPT !.done = "yes",
                                !.config = ArchiveBoxBaseConfig(EmptyDict, conf, environ)]
    /\ UNCHANGED <<pc, environ, conf, bak, CONFIG, stdout_isatty, call, ncalls, threads>>

NextSettings == InitConfigSet

SpecSettings == InitSettings /\ [][NextSettings]_vars

\* C22: a field is resolved with the precedence schema default <
\* ArchiveBox.conf < environment variable: when ArchiveBox.conf exists and
\* both it and the environment define a field, the config set holds the
\* environment's value.
C22_EnvironmentOverToml ==
    (probe.done = "yes" /\ conf.exists) =>
        \A field \in DOMAIN model_fields :
            (field \in DOMAIN environ /\ field \in DOMAIN FlatTomlConfigSettingsSource(conf))
                => probe.config[field] = environ[field]

-----------------------------------------------------------------------------
\* the positions of a write_config_file call before its backup is written
BeforeBackup == {"read", "backup"}

\* the positions from the written backup to the end of the call
AfterBackup == {"write", "validate", "restore", "cleanup", "returned", "raised"}

\* C23: one call of write_config_file on an existing config file, no other
\* writer running: the config file keeps its content until the backup is
\* written, and from then until the call is over the content the file had
\* before the call is the content of the config file or of the .bak file.
C23_BackupBeforeOverwrite ==
    call.pre_conf.exists =>
        /\ threads[Writer].at \in BeforeBackup => conf = call.pre_conf
        /\ threads[Writer].at \in AfterBackup =>
              (conf = call.pre_conf \/ bak = call.pre_conf)

\* a call has written the file anew and returned, and the backup holds the
\* old content
C23_Witness ==
    /\ call.pre_conf.exists
    /\ threads[Writer].at = "returned"
    /\ conf # call.pre_conf
    /\ bak = call.pre_conf

\* a call has written the file anew, and then restored it and removed
\* the backup
C23_Witness_Restored ==
    /\ call.pre_conf.exists
    /\ threads[Writer].at = "returned"
    /\ threads[Writer].exc # ""
    /\ conf = call.pre_conf
    /\ ~bak.exists

-----------------------------------------------------------------------------
(* Directories: write_config_file called with an explicit out_dir.  In this *)
(* part conf and bak map a directory to its ArchiveBox.conf and its         *)
(* ArchiveBox.conf.bak, and the process has imported the module already.    *)

s_dot  == <<".">>
s_data == <<"/","d","a","t","a">>

Dirs == {s_dot, s_data}

\* out_dir=None
NoOutDir == <<>>

\* Path(os.getenv('OUTPUT_DIR', '.')).resolve()
getenv_OUTPUT_DIR(env) == IF "OUTPUT_DIR" \in DOMAIN env THEN env["OUTPUT_DIR"] ELSE s_dot

\* out_dir or Path(os.getenv('OUTPUT_DIR', '.')).resolve()
config_dir(out_dir, env) == IF out_dir = NoOutDir THEN getenv_OUTPUT_DIR(env) ELSE out_dir

\* write_config_file(config, out_dir) on the directories confs and baks: the
\* file of out_dir is read, backed up and written, and the try block calls
\* load_all_config() without out_dir, whose load_config_file reads the file
\* of the directory that OUTPUT_DIR names
write_config_file_out_dir(config, out_dir, env, confs, baks, random_secret_key) ==
    LET dir == config_dir(out_dir, env)
        Disk(r) == [conf |-> (dir :> r.conf) @@ confs, bak |-> (dir :> r.bak) @@ baks,
                    outcome |-> r.outcome, exc |-> r.exc, ret |-> r.ret,
                    validated |-> r.validated]
        Validate(written, backup, pass) ==
            IF pass.ok THEN CommitWrite(config, written, backup, pass.ret)
            ELSE Rollback(written, backup, pass.exc)
        Try(w) ==
            IF w.outcome = "raised" THEN Disk(w)
            ELSE Disk(Validate(w.conf, w.bak,
                               load_all_config(env, ((dir :> w.conf) @@ confs)[config_dir(NoOutDir, env)])))
    IN Try(write_config_file_unvalidated(config, env, confs[dir], random_secret_key))

DirFiles == {Absent, UserFile}

\* a value, an invalid value, and a value given under the legacy alias of
\* SAVE_WGET
DirArgs == {
    <<Item("TIMEOUT", s_45)>>,
    <<Item("TIMEOUT", s_abc)>>,
    <<Item("FETCH_WGET", s_False)>>}

InitDirs ==
    /\ pc = "ready"
    /\ environ \in {[PATH |-> s_bin], [PATH |-> s_bin, OUTPUT_DIR |-> s_data]}
    /\ conf \in [Dirs -> DirFiles]
    /\ bak = [dir \in Dirs |-> Absent]
    /\ CONFIG = EmptyDict
    /\ stdout_isatty = FALSE
    /\ call = NoCall
    /\ ncalls = 0
    /\ probe = NoProbe
    /\ threads = NoThreads

\* a call write_config_file(config, out_dir=out_dir); pre_conf is the file of
\* the written directory before the call
WriteConfigFileOutDir(config, out_dir, random_secret_key) ==
    /\ ncalls < MaxCalls
    /\ \E w \in {write_config_file_out_dir(config, out_dir, environ, conf, bak,
                                           random_secret_key)} :
          /\ conf' = w.conf
          /\ bak' = w.bak
          /\ call' = [out_dir |-> out_dir] @@
                     [NoCall EXCEPT !.op = "write", !.config = config,
                                    !.pre_conf = conf[config_dir(out_dir, environ)],
                                    !.pre_environ = environ,
                                    !.outcome = w.outcome, !.exc = w.exc, !.ret = w.ret,
                                    !.validated = w.validated]
    /\ ncalls' = ncalls + 1
    /\ UNCHANGED <<pc, environ, CONFIG, stdout_isatty, probe, threads>>

NextDirs ==
    \E config \in DirArgs, out_dir \in Dirs \cup {NoOutDir}, k \in RandomSecrets :
        WriteConfigFileOutDir(config, out_dir, k)

SpecDirs == InitDirs /\ [][NextDirs]_vars

\* the pass on the file f returns, and gives the requested keys the values
\* the call returned
ValidatedBy(f) ==
    LET Same(pass) == pass.ok /\ call.ret = ReturnedValues(call.config, 1, pass.ret, EmptyDict)
    IN Same(load_all_config(environ, f))

\* C24: the validation of write_config_file resolves against the file the
\* call has just written: after a call with an explicit out_dir that returned
\* from its try block, out_dir/ArchiveBox.conf is the file as written, a
\* pass on it succeeds and gives the keys the values the call returned.
C24_ValidatesWrittenFile ==
    (call.op = "write" /\ call.validated /\ call.out_dir # NoOutDir) =>
        ValidatedBy(conf[call.out_dir])

-----------------------------------------------------------------------------
\* the options that the file f holds under the section where key is declared
DeclaredSectionOpts(f, key) ==
    LET Opts(config_file) ==
            IF HasSection(config_file, find_section(key))
            THEN SectionOpts(config_file, find_section(key)) ELSE <<>>
    IN Opts(ConfigParser_read(f))

\* C25: an assignment keyed by a declared legacy alias is accepted: the call
\* does not fail, and the written file holds the value under the section
\* where the canonical key is declared.
C25_AliasAssignment ==
    (call.op = "write" /\ call.config[1].key \in DOMAIN CONFIG_ALIASES) =>
        LET alias == call.config[1].key
            opts  == DeclaredSectionOpts(conf[config_dir(call.out_dir, call.pre_environ)],
                                         CONFIG_ALIASES[alias])
        IN /\ call.outcome = "returned"
           /\ \E j \in 1..Len(opts) :
                 /\ opts[j].key \in {alias, CONFIG_ALIASES[alias]}
                 /\ opts[j].val = call.config[1].val

-----------------------------------------------------------------------------
\* the assigned value cannot be coerced to the declared type of its key
Uncoercible(item) ==
    /\ item.key \in USER_CONFIG
    /\ ~Coerce(BaseDecl(item.key).type, item.val).ok

\* the file holds the line key = val in some section
HoldsLine(file, item) ==
    \E i \in 1..Len(file.body) :
        /\ HasOpt(file.body[i].opts, item.key)
        /\ OptVal(file.body[i].opts, item.key) = item.val

\* C26: an assigned value that cannot be coerced to the declared type of its
\* key is never committed: under every environment the call is rolled back
\* and returns the empty mapping, and the file does not hold the value
\* afterwards.
C26_InvalidNeverCommitted ==
    \A i \in 1..Len(call.config) :
        (call.op = "write" /\ Uncoercible(call.config[i])) =>
            /\ call.outcome = "returned"
            /\ ~call.validated
            /\ call.ret = EmptyDict
            /\ ~HoldsLine(conf, call.config[i])

-----------------------------------------------------------------------------
(* Toggles: the import under an environment that switches some of the      *)
(* archive methods and dependency flags off (every USE_* and SAVE_* key is *)
(* declared with the default True), with no config file.                   *)

DerivedKeys == {DERIVED_CONFIG_DEFAULTS[i].key : i \in 1..Len(DERIVED_CONFIG_DEFAULTS)}

\* the boolean keys declared both in CONFIG_DEFAULTS and in
\* DERIVED_CONFIG_DEFAULTS: the USE_* flags and the SAVE_* methods
Toggles ==
    {BaseDecls[i].key : i \in {j \in 1..Len(BaseDecls) : BaseDecls[j].type = "bool"}}
        \cap DerivedKeys

\* at most so many keys are switched off by the environment
MaxOff == 2

ToggleEnvirons ==
    {[k \in off \cup {"PATH"} |-> IF k = "PATH" THEN s_bin ELSE s_False] :
        off \in {S \in SUBSET (Toggles \cup {"SAVE_TITLE"}) : Cardinality(S) <= MaxOff}}

InitToggles ==
    /\ pc = "boot"
    /\ environ \in ToggleEnvirons
    /\ conf = Absent
    /\ bak = Absent
    /\ CONFIG = EmptyDict
    /\ stdout_isatty = FALSE
    /\ call = NoCall
    /\ ncalls = 0
    /\ probe = NoProbe
    /\ threads = NoThreads

NextToggles == Import

SpecToggles == InitToggles /\ [][NextToggles]_vars

\* the snapshot of the import holds key with a true value
Enabled(key) == Truthy(CONFIG[key])

\* the base sections resolved key to a true value
BaseEnabled(key) == Truthy(call.arg[key])

\* the dependency flags that an archive method needs
Needs(method) ==
    CASE method \in {"SAVE_FAVICON", "SAVE_ARCHIVE_DOT_ORG"}     -> {"USE_CURL"}
      [] method \in {"SAVE_WGET", "SAVE_WARC"}                   -> {"USE_WGET"}
      [] method = "SAVE_GIT"                                     -> {"USE_GIT"}
      [] method = "SAVE_MEDIA"                                   -> {"USE_YOUTUBEDL"}
      [] method \in {"SAVE_PDF", "SAVE_SCREENSHOT", "SAVE_DOM"}  -> {"USE_CHROME"}
      [] method = "SAVE_SINGLEFILE"    -> {"USE_SINGLEFILE", "USE_CHROME", "USE_NODE"}
      [] method = "SAVE_READABILITY"   -> {"USE_READABILITY", "USE_NODE"}
      [] method = "SAVE_MERCURY"       -> {"USE_MERCURY", "USE_NODE"}

Methods == {"SAVE_FAVICON", "SAVE_ARCHIVE_DOT_ORG", "SAVE_WGET", "SAVE_WARC", "SAVE_GIT",
            "SAVE_MEDIA", "SAVE_PDF", "SAVE_SCREENSHOT", "SAVE_DOM", "SAVE_SINGLEFILE",
            "SAVE_READABILITY", "SAVE_MERCURY"}

\* C27: in every resolved snapshot an archive method is enabled only if
\* every dependency flag it needs is enabled, all values being the final
\* ones.
C27_MethodsNeedFlags ==
    pc = "ready" =>
        \A method \in Methods : Enabled(method) => \A flag \in Needs(method) : Enabled(flag)

\* C28: the final SAVE_MERCURY is true whenever the base-resolved
\* SAVE_MERCURY, USE_MERCURY and USE_NODE are all true, whatever the toggles
\* of the other methods.
C28_MercuryIndependent ==
    (/\ pc = "ready"
     /\ BaseEnabled("SAVE_MERCURY")
     /\ BaseEnabled("USE_MERCURY")
     /\ BaseEnabled("USE_NODE")) => Enabled("SAVE_MERCURY")

\* C29: derivation only turns a toggle off: a toggle whose final value is
\* true had a true base-resolved value.
C29_DerivationOnlyDisables ==
    pc = "ready" => \A key \in Toggles : Enabled(key) => BaseEnabled(key)

\* a toggle set to False by the user is off in the snapshot, next to a
\* toggle that was on after the base sections and that derivation turned off
C29_Witness ==
    /\ pc = "ready"
    /\ \E key \in Toggles :
          /\ key \in DOMAIN call.pre_environ
          /\ ~BaseEnabled(key)
          /\ ~Enabled(key)
    /\ \E key \in Toggles : BaseEnabled(key) /\ ~Enabled(key)
    /\ \E key \in Toggles : BaseEnabled(key) /\ Enabled(key)

-----------------------------------------------------------------------------
\* the keys that the call assigns
AssignedKeys == {call.config[i].key : i \in 1..Len(call.config)}

\* the key/value pairs that ConfigParser reads in the file, each with its
\* section
PairsOf(file) ==
    LET Pairs(config_file) ==
            UNION {{<<config_file[i].section, config_file[i].opts[j].key,
                      config_file[i].opts[j].val>> : j \in 1..Len(config_file[i].opts)} :
                   i \in 1..Len(config_file)}
    IN Pairs(ConfigParser_read(file))

\* a SECRET_KEY that the call has to replace by a generated one
Placeholder(pair) ==
    /\ pair[1] = "SERVER_CONFIG"
    /\ pair[2] = "SECRET_KEY"
    /\ (pair[3] = <<>> \/ str_contains(pair[3], s_not_a_valid_secret))

\* C30: a call of write_config_file whose validation passed changes only the
\* assigned keys, and SECRET_KEY when one has to be generated: every other
\* key/value pair of the file before the call is in the file afterwards, in
\* the same section with the same value.
C30_OtherKeysKept ==
    (call.op = "write" /\ call.validated) =>
        \A pair \in PairsOf(call.pre_conf) :
            (pair[2] \notin AssignedKeys /\ ~Placeholder(pair)) => pair \in PairsOf(conf)

\* a validated write of one key into a section that held another key, on a
\* file with a SECRET_KEY of the user
C30_Witness ==
    /\ call.op = "write"
    /\ call.validated
    /\ call.pre_conf = MisplacedFile
    /\ call.config = <<Item("TIMEOUT", s_45)>>
    /\ <<"GENERAL_CONFIG", "ONLY_NEW", s_True>> \in PairsOf(conf)
    /\ <<"GENERAL_CONFIG", "TIMEOUT", s_45>> \in PairsOf(conf)
    /\ <<"SERVER_CONFIG", "SECRET_KEY", s_s3cr3t>> \in PairsOf(conf)

====
